---- MODULE Spec2Model ----
(***************************************************************************)
(* Authentication gateway: token lifecycle, refresh-token store and the    *)
(* two-factor step-up flow (src/src/routers/auth.py and src/src/auth/).    *)
(*                                                                         *)
(* The users table follows the persisted schema: the columns of            *)
(* src/src/models/user.py plus the four two-factor columns added by the    *)
(* migration alembic/versions/3d6781569585_add_two_factor_fields.py.       *)
(* Time is an integer clock; token lifetimes are scaled to it.             *)
(***************************************************************************)
EXTENDS Integers, FiniteSets, Sequences, TLC

\* ---------------------------------------------------------------- bounds
MaxTime == 2
MaxRecords == 2
AccessTTL == 2
StepUpTTL == 1
RefreshTTL == 2

\* ------------------------------------------------------------- constants
JWT_SECRET_KEY == "jwt-secret"
TWO_FACTOR_SECRET == "two-factor-secret"
NoSecret == ""
Null == "NULL"
UnknownEmail == 0
UnknownRefresh == 0
NoUser == 0
NoPlain == -1
\* a bearer value that is not three base64url segments
Malformed == [type |-> "malformed", sub |-> NoUser, role |-> Null, is_active |-> FALSE,
              status |-> Null, exp |-> 0, key |-> NoSecret]
\* absence of a token in a response
NoToken == [type |-> "none", sub |-> NoUser, role |-> Null, is_active |-> FALSE,
            status |-> Null, exp |-> 0, key |-> NoSecret]

UserIds == {1}
Passwords == {"Passw0rd!A", "Passw0rd!B"}
WeakPassword == "password"
OtpCodes == {"123456", "000000"}

VARIABLES
    users,                  \* users table: id -> row (exists = FALSE when the row is gone)
    refresh_tokens,         \* refresh_tokens table: set of rows
    now,                    \* the clock
    held,                   \* the signed token the caller holds (NoToken: none)
    nextPlain,              \* next fresh value of secrets.token_urlsafe
    two_factor_secret_key,  \* settings.two_factor_secret_key
    resp,                   \* response of the last request
    procs,                  \* in-flight concurrent refresh requests
    resources               \* the content service's records, by resource type

vars == <<users, refresh_tokens, now, held, nextPlain, two_factor_secret_key, resp, procs,
          resources>>

\* ------------------------------------------------------------- passwords
\* pwd_context.hash: a one-way value, never the plaintext
hash_password(password) == <<"bcrypt", password>>

verify_password(plain_password, hashed_password) ==
    hashed_password = <<"bcrypt", plain_password>>

validate_password_complexity(password) == password \in Passwords

\* --------------------------------------------------------- refresh store
\* hashlib.sha256(token_plain.encode()).hexdigest()
sha256(token_plain) == <<"sha256", token_plain>>

RefreshRow(user_id, token_plain, t, origin) ==
    [user_id |-> user_id, token_hash |-> sha256(token_plain),
     expires_at |-> t + RefreshTTL, origin |-> origin]

\* the SELECT with expires_at >= now
LookupRefresh_inclusive(store, token_plain, t) ==
    {r \in store : r.token_hash = sha256(token_plain) /\ r.expires_at >= t}

\* rows matched by the SELECT of verify_refresh_token
LookupRefresh(store, token_plain, t) ==
    {r \in store : r.token_hash = sha256(token_plain) /\ r.expires_at > t}

\* TokenService.verify_refresh_token: the account, or NoUser for None
verify_refresh_token(tbl, store, token_plain, t) ==
    LET rows == LookupRefresh(store, token_plain, t) IN
    IF rows = {} THEN NoUser
    ELSE LET r == CHOOSE x \in rows : TRUE IN
         IF tbl[r.user_id].exists /\ tbl[r.user_id].is_active THEN r.user_id ELSE NoUser

revoke_all_user_tokens(store, user_id) == {r \in store : r.user_id # user_id}

\* ------------------------------------------------------------------ JWT
SecretFor2FA == IF two_factor_secret_key # NoSecret THEN two_factor_secret_key ELSE JWT_SECRET_KEY

\* create_access_token with a zero lifetime
create_access_token_nottl(tbl, user_id, t) ==
    [type |-> "access", sub |-> user_id, role |-> tbl[user_id].role,
     is_active |-> tbl[user_id].is_active, status |-> Null,
     exp |-> t, key |-> JWT_SECRET_KEY]

create_access_token(tbl, user_id, t) ==
    [type |-> "access", sub |-> user_id, role |-> tbl[user_id].role,
     is_active |-> tbl[user_id].is_active, status |-> Null,
     exp |-> t + AccessTTL, key |-> JWT_SECRET_KEY]

\* the signed refresh-kind token of jwt_handler (the routers hand out opaque
\* refresh tokens instead)
create_refresh_token(user_id, t) ==
    [type |-> "refresh", sub |-> user_id, role |-> Null,
     is_active |-> FALSE, status |-> Null,
     exp |-> t + RefreshTTL, key |-> JWT_SECRET_KEY]

create_temp_2fa_token(user_id, t) ==
    [type |-> "2fa_temp", sub |-> user_id, role |-> Null,
     is_active |-> FALSE, status |-> "pending_2fa",
     exp |-> t + StepUpTTL, key |-> SecretFor2FA]

\* jwt.decode with verify_exp switched off
JwtDecode_noexp(token, key, t) ==
    IF token.type = "malformed" THEN "DecodeError"
    ELSE IF token.key # key THEN "InvalidSignatureError"
    ELSE "ok"

\* jwt.decode: format, then signature, then the exp claim
JwtDecode(token, key, t) ==
    IF token.type = "malformed" THEN "DecodeError"
    ELSE IF token.key # key THEN "InvalidSignatureError"
    ELSE IF token.exp <= t THEN "ExpiredSignatureError"
    ELSE "ok"

JWTErrorOf(decoded) ==
    IF decoded = "ExpiredSignatureError" THEN "Token has expired"
    ELSE IF decoded = "DecodeError" THEN "Invalid token format"
    ELSE "Invalid token"

\* verify_token without the check of the type claim
verify_token_nokind(token, token_type, t) ==
    LET decoded == IF token.type = "malformed" THEN "DecodeError"
                   ELSE IF token.key # JWT_SECRET_KEY THEN "InvalidSignatureError"
                   ELSE IF token.exp <= t THEN "ExpiredSignatureError"
                   ELSE "ok" IN
    IF decoded = "ExpiredSignatureError" THEN "Token has expired"
    ELSE IF decoded = "DecodeError" THEN "Invalid token format"
    ELSE IF decoded # "ok" THEN "Invalid token"
    ELSE "ok"

\* verify_token that looks at neither the exp claim nor the clock
verify_token_noexpiry(token, token_type, t) ==
    LET decoded == JwtDecode_noexp(token, JWT_SECRET_KEY, t) IN
    IF decoded # "ok" THEN JWTErrorOf(decoded)
    ELSE IF token.type # token_type THEN "Token type mismatch"
    ELSE "ok"

\* verify_token: "ok" or the JWTError message
verify_token(token, token_type, t) ==
    LET decoded == JwtDecode(token, JWT_SECRET_KEY, t) IN
    IF decoded # "ok" THEN JWTErrorOf(decoded)
    ELSE IF token.type # token_type THEN "Token type mismatch"
    ELSE IF token.exp < t THEN "Token has expired"
    ELSE "ok"

\* verify_temp_2fa_token that stops after jwt.decode
verify_temp_2fa_token_decodeonly(token, t) ==
    LET decoded == JwtDecode(token, SecretFor2FA, t) IN
    IF decoded # "ok" THEN JWTErrorOf(decoded)
    ELSE "ok"

verify_temp_2fa_token(token, t) ==
    LET decoded == JwtDecode(token, SecretFor2FA, t) IN
    IF decoded # "ok" THEN JWTErrorOf(decoded)
    ELSE IF token.type # "2fa_temp" THEN "Token type mismatch"
    ELSE IF token.status # "pending_2fa" THEN "Invalid 2FA token status"
    ELSE "ok"

\* ------------------------------------------------------------ responses
NoResp == [op |-> "none", status |-> 0, detail |-> Null, user |-> NoUser,
           access |-> NoToken, refresh |-> NoPlain, temp |-> NoToken]

Reject(op, status, detail) ==
    [op |-> op, status |-> status, detail |-> detail, user |-> NoUser,
     access |-> NoToken, refresh |-> NoPlain, temp |-> NoToken]

Accept(op, user_id, access, refresh, temp) ==
    [op |-> op, status |-> 200, detail |-> Null, user |-> user_id,
     access |-> access, refresh |-> refresh, temp |-> temp]

\* the caller keeps the signed token of a response, or the one it held
Hold(token) == held' \in {held, token}

CanStore == Cardinality(refresh_tokens) < MaxRecords /\ nextPlain <= MaxRecords

Frame == UNCHANGED <<now, two_factor_secret_key, procs, resources>>

\* ----------------------------------------------------------------- Init
InitUser ==
    [exists |-> TRUE, password_hash |-> hash_password("Passw0rd!A"), role |-> "editor", is_active |-> TRUE,
     two_factor_enabled |-> FALSE, two_factor_method |-> Null,
     keycloak_user_id |-> Null, two_factor_configured_at |-> Null]

Init ==
    /\ users = [u \in UserIds |-> InitUser]
    /\ refresh_tokens = {}
    /\ now = 0
    /\ held = NoToken
    /\ nextPlain = 1
    /\ two_factor_secret_key \in {NoSecret, TWO_FACTOR_SECRET}
    /\ resp = NoResp
    /\ procs = <<>>
    /\ resources = <<>>

\* ---------------------------------------------------------------- login
\* login that skips the two_factor_enabled branch
LoginResult_no2fa(email, password) ==
    IF email = UnknownEmail \/ ~users[email].exists
    THEN Reject("login", 401, "Credenciales invalidas")
    ELSE IF ~verify_password(password, users[email].password_hash)
    THEN Reject("login", 401, "Credenciales invalidas")
    ELSE IF ~users[email].is_active
    THEN Reject("login", 401, "Usuario inactivo")
    ELSE Accept("login", email, create_access_token(users, email, now), nextPlain, NoToken)

LoginResult(email, password) ==
    IF email = UnknownEmail \/ ~users[email].exists
    THEN Reject("login", 401, "Credenciales invalidas")
    ELSE IF ~verify_password(password, users[email].password_hash)
    THEN Reject("login", 401, "Credenciales invalidas")
    ELSE IF ~users[email].is_active
    THEN Reject("login", 401, "Usuario inactivo")
    ELSE IF users[email].two_factor_enabled
    THEN Accept("login", email, NoToken, NoPlain, create_temp_2fa_token(email, now))
    ELSE Accept("login", email, create_access_token(users, email, now), nextPlain, NoToken)

login(email, password) ==
    LET r == LoginResult(email, password) IN
    /\ r.refresh # NoPlain => CanStore
    /\ resp' = r
    /\ IF r.refresh # NoPlain
       THEN /\ refresh_tokens' = refresh_tokens \cup {RefreshRow(email, nextPlain, now, "login")}
            /\ nextPlain' = nextPlain + 1
            /\ Hold(r.access)
       ELSE /\ UNCHANGED <<refresh_tokens, nextPlain>>
            /\ IF r.temp # NoToken THEN Hold(r.temp) ELSE UNCHANGED held
    /\ UNCHANGED users
    /\ Frame

\* -------------------------------------------------------------- refresh
RefreshResult(token_plain) ==
    LET user == verify_refresh_token(users, refresh_tokens, token_plain, now) IN
    IF user = NoUser
    THEN Reject("refresh", 401, "Token de renovacion invalido o expirado")
    ELSE IF ~users[user].is_active
    THEN Reject("refresh", 401, "Usuario inactivo")
    ELSE Accept("refresh", user, create_access_token(users, user, now), nextPlain, NoToken)

OriginOf(token_plain) ==
    (CHOOSE r \in LookupRefresh(refresh_tokens, token_plain, now) : TRUE).origin

\* refresh wired to rotate_refresh_token: the presented row is revoked
refresh_token_rotate(token_plain) ==
    LET r == RefreshResult(token_plain) IN
    /\ r.status = 200 => CanStore
    /\ resp' = r
    /\ IF r.status = 200
       THEN /\ refresh_tokens' =
                    {x \in refresh_tokens : x.token_hash # sha256(token_plain)} \cup
                    {RefreshRow(r.user, nextPlain, now, OriginOf(token_plain))}
            /\ nextPlain' = nextPlain + 1
            /\ Hold(r.access)
       ELSE UNCHANGED <<refresh_tokens, nextPlain, held>>
    /\ UNCHANGED users
    /\ Frame

refresh_token(token_plain) ==
    LET r == RefreshResult(token_plain) IN
    /\ r.status = 200 => CanStore
    /\ resp' = r
    /\ IF r.status = 200
       THEN /\ refresh_tokens' = refresh_tokens \cup
                    {RefreshRow(r.user, nextPlain, now, OriginOf(token_plain))}
            /\ nextPlain' = nextPlain + 1
            /\ Hold(r.access)
       ELSE UNCHANGED <<refresh_tokens, nextPlain, held>>
    /\ UNCHANGED users
    /\ Frame

\* --------------------------------------------------------------- logout
LogoutResult(token) ==
    IF verify_token(token, "access", now) # "ok"
    THEN Reject("logout", 401, "Token invalido")
    ELSE IF ~users[token.sub].exists
    THEN Reject("logout", 401, "Usuario no encontrado")
    ELSE Accept("logout", token.sub, NoToken, NoPlain, NoToken)

logout(token) ==
    LET r == LogoutResult(token) IN
    /\ resp' = r
    /\ refresh_tokens' = IF r.status = 200
                         THEN revoke_all_user_tokens(refresh_tokens, r.user)
                         ELSE refresh_tokens
    /\ UNCHANGED <<users, held, nextPlain>>
    /\ Frame

\* -------------------------------------------------------------- /auth/me
MeResult(token) ==
    IF verify_token(token, "access", now) # "ok"
    THEN Reject("me", 401, "Token invalido")
    ELSE IF ~users[token.sub].exists
    THEN Reject("me", 401, "Usuario no encontrado")
    ELSE Accept("me", token.sub, NoToken, NoPlain, NoToken)

auth_me(token) ==
    /\ resp' = MeResult(token)
    /\ UNCHANGED <<users, refresh_tokens, held, nextPlain>>
    /\ Frame

\* ------------------------------------------------------ change-password
ChangePasswordResult(token, current_password, new_password) ==
    IF verify_token(token, "access", now) # "ok"
    THEN Reject("change_password", 401, "Token invalido")
    ELSE IF ~users[token.sub].exists
    THEN Reject("change_password", 401, "Usuario no encontrado")
    ELSE IF ~verify_password(current_password, users[token.sub].password_hash)
    THEN Reject("change_password", 400, "Contrasena actual incorrecta")
    ELSE IF ~validate_password_complexity(new_password)
    THEN Reject("change_password", 400, "Nueva contrasena no cumple con los requisitos")
    ELSE Accept("change_password", token.sub, NoToken, NoPlain, NoToken)

change_password(token, current_password, new_password) ==
    LET r == ChangePasswordResult(token, current_password, new_password) IN
    /\ resp' = r
    /\ IF r.status = 200
       THEN /\ users' = [users EXCEPT ![r.user].password_hash = hash_password(new_password)]
            /\ refresh_tokens' = revoke_all_user_tokens(refresh_tokens, r.user)
       ELSE UNCHANGED <<users, refresh_tokens>>
    /\ UNCHANGED <<held, nextPlain>>
    /\ Frame

\* ----------------------------------------------------------- verify-2fa
\* verify-2fa that validates the OTP code
Verify2FAResult_otp(temp_token, otp_code) ==
    IF verify_temp_2fa_token(temp_token, now) # "ok"
    THEN Reject("verify_2fa", 401, verify_temp_2fa_token(temp_token, now))
    ELSE IF ~users[temp_token.sub].exists \/ ~users[temp_token.sub].two_factor_enabled
    THEN Reject("verify_2fa", 404, "Usuario no encontrado o 2FA no configurado")
    ELSE IF users[temp_token.sub].keycloak_user_id = Null
    THEN Reject("verify_2fa", 400, "Usuario no tiene 2FA configurado en Keycloak")
    ELSE IF otp_code # "123456"
    THEN Reject("verify_2fa", 401, "Codigo OTP invalido")
    ELSE Accept("verify_2fa", temp_token.sub,
                create_access_token(users, temp_token.sub, now), nextPlain, NoToken)

\* the 401 detail is "Token temporal invalido o expirado: " followed by the
\* JWTError message, kept here as the message alone
Verify2FAResult(temp_token, otp_code) ==
    IF verify_temp_2fa_token(temp_token, now) # "ok"
    THEN Reject("verify_2fa", 401, verify_temp_2fa_token(temp_token, now))
    ELSE IF ~users[temp_token.sub].exists \/ ~users[temp_token.sub].two_factor_enabled
    THEN Reject("verify_2fa", 404, "Usuario no encontrado o 2FA no configurado")
    ELSE IF users[temp_token.sub].keycloak_user_id = Null
    THEN Reject("verify_2fa", 400, "Usuario no tiene 2FA configurado en Keycloak")
    ELSE Accept("verify_2fa", temp_token.sub,
                create_access_token(users, temp_token.sub, now), nextPlain, NoToken)

verify_2fa(temp_token, otp_code) ==
    LET r == Verify2FAResult(temp_token, otp_code) IN
    /\ r.status = 200 => CanStore
    /\ resp' = r
    /\ IF r.status = 200
       THEN /\ refresh_tokens' = refresh_tokens \cup {RefreshRow(r.user, nextPlain, now, "verify_2fa")}
            /\ nextPlain' = nextPlain + 1
            /\ Hold(r.access)
       ELSE UNCHANGED <<refresh_tokens, nextPlain, held>>
    /\ UNCHANGED users
    /\ Frame

\* ----------------------------------------------------------- enable-2fa
\* enable-2fa without the test of the two-factor flag
Enable2FAResult_noflagtest(token, kc_user, kc_otp) ==
    IF verify_token(token, "access", now) # "ok"
    THEN Reject("enable_2fa", 401, "Token invalido")
    ELSE IF ~users[token.sub].exists
    THEN Reject("enable_2fa", 404, "Usuario no encontrado")
    ELSE IF users[token.sub].keycloak_user_id = Null /\ kc_user = "raise"
    THEN Reject("enable_2fa", 500, "Error interno del servidor")
    ELSE IF users[token.sub].keycloak_user_id = Null /\ kc_user = "none"
    THEN Reject("enable_2fa", 500, "Error al crear usuario en Keycloak")
    ELSE IF kc_otp = "empty"
    THEN Reject("enable_2fa", 500, "Error al configurar OTP en Keycloak")
    ELSE Accept("enable_2fa", token.sub, NoToken, NoPlain, NoToken)

\* kc_user: what keycloak.create_user gives ("id", "none" or "raise");
\* kc_otp: what keycloak.setup_otp gives ("qr" or "empty")
Enable2FAResult(token, kc_user, kc_otp) ==
    IF verify_token(token, "access", now) # "ok"
    THEN Reject("enable_2fa", 401, "Token invalido")
    ELSE IF ~users[token.sub].exists
    THEN Reject("enable_2fa", 404, "Usuario no encontrado")
    ELSE IF users[token.sub].two_factor_enabled
    THEN Reject("enable_2fa", 400, "2FA ya esta habilitado para este usuario")
    ELSE IF users[token.sub].keycloak_user_id = Null /\ kc_user = "raise"
    THEN Reject("enable_2fa", 500, "Error interno del servidor")
    ELSE IF users[token.sub].keycloak_user_id = Null /\ kc_user = "none"
    THEN Reject("enable_2fa", 500, "Error al crear usuario en Keycloak")
    ELSE IF kc_otp = "empty"
    THEN Reject("enable_2fa", 500, "Error al configurar OTP en Keycloak")
    ELSE Accept("enable_2fa", token.sub, NoToken, NoPlain, NoToken)

enable_2fa(token, kc_user, kc_otp) ==
    LET r == Enable2FAResult(token, kc_user, kc_otp)
        stored == /\ verify_token(token, "access", now) = "ok"
                  /\ users[token.sub].exists
                  /\ ~users[token.sub].two_factor_enabled
                  /\ users[token.sub].keycloak_user_id = Null
                  /\ kc_user = "id"
    IN
    /\ resp' = r
    /\ users' = IF stored
                THEN [users EXCEPT ![token.sub].keycloak_user_id = "kc-id"]
                ELSE users
    /\ UNCHANGED <<refresh_tokens, held, nextPlain>>
    /\ Frame

\* ---------------------------------------------------------- confirm-2fa
\* confirm-2fa that does not ask for keycloak_user_id
Confirm2FAResult_nosubject(token, otp_code) ==
    IF verify_token(token, "access", now) # "ok"
    THEN Reject("confirm_2fa", 401, "Token invalido")
    ELSE IF ~users[token.sub].exists
    THEN Reject("confirm_2fa", 404, "Usuario no encontrado o 2FA no configurado")
    ELSE Accept("confirm_2fa", token.sub, NoToken, NoPlain, NoToken)

Confirm2FAResult(token, otp_code) ==
    IF verify_token(token, "access", now) # "ok"
    THEN Reject("confirm_2fa", 401, "Token invalido")
    ELSE IF ~users[token.sub].exists \/ users[token.sub].keycloak_user_id = Null
    THEN Reject("confirm_2fa", 404, "Usuario no encontrado o 2FA no configurado")
    ELSE Accept("confirm_2fa", token.sub, NoToken, NoPlain, NoToken)

confirm_2fa(token, otp_code) ==
    LET r == Confirm2FAResult(token, otp_code) IN
    /\ resp' = r
    /\ users' = IF r.status = 200
                THEN [users EXCEPT ![r.user].two_factor_enabled = TRUE,
                                   ![r.user].two_factor_method = "totp",
                                   ![r.user].two_factor_configured_at = "set"]
                ELSE users
    /\ UNCHANGED <<refresh_tokens, held, nextPlain>>
    /\ Frame

\* ----------------------------------------------------------- 2fa/status
Get2FAStatusResult(token) ==
    IF verify_token(token, "access", now) # "ok"
    THEN Reject("get_2fa_status", 401, "Token invalido")
    ELSE IF ~users[token.sub].exists
    THEN Reject("get_2fa_status", 404, "Usuario no encontrado")
    ELSE Accept("get_2fa_status", token.sub, NoToken, NoPlain, NoToken)

get_2fa_status(token) ==
    /\ resp' = Get2FAStatusResult(token)
    /\ UNCHANGED <<users, refresh_tokens, held, nextPlain>>
    /\ Frame

\* ---------------------------------------------------------- disable-2fa
Disable2FAResult(token) ==
    IF verify_token(token, "access", now) # "ok"
    THEN Reject("disable_2fa", 401, "Token invalido")
    ELSE IF ~users[token.sub].exists
    THEN Reject("disable_2fa", 404, "Usuario no encontrado")
    ELSE IF ~users[token.sub].two_factor_enabled
    THEN Reject("disable_2fa", 400, "2FA no esta habilitado para este usuario")
    ELSE Accept("disable_2fa", token.sub, NoToken, NoPlain, NoToken)

disable_2fa(token) ==
    LET r == Disable2FAResult(token) IN
    /\ resp' = r
    /\ users' = IF r.status = 200
                THEN [users EXCEPT ![r.user].two_factor_enabled = FALSE,
                                   ![r.user].two_factor_method = Null,
                                   ![r.user].two_factor_configured_at = Null]
                ELSE users
    /\ UNCHANGED <<refresh_tokens, held, nextPlain>>
    /\ Frame

\* ------------------------------------------------------ strict resolver
\* dependencies.get_current_user: the HTTPException raised inside its try block
\* for a missing or inactive account is an Exception, so the handler's last
\* except clause re-raises it as a 500; the 401 detail of a JWTError is
\* "Token invalido: " followed by its message, kept here as the message alone
\* a strict resolver that also asks for a live refresh-token record of the account
ResolveResult_session(token) ==
    IF verify_token(token, "access", now) # "ok"
    THEN Reject("resolve", 401, verify_token(token, "access", now))
    ELSE IF token.sub = NoUser
    THEN Reject("resolve", 500, "Error interno del servidor: 401: Token invalido: ID de usuario no encontrado")
    ELSE IF ~users[token.sub].exists
    THEN Reject("resolve", 500, "Error interno del servidor: 401: Usuario no encontrado")
    ELSE IF ~users[token.sub].is_active
    THEN Reject("resolve", 500, "Error interno del servidor: 401: Usuario inactivo")
    ELSE IF \A r \in refresh_tokens : r.user_id # token.sub
    THEN Reject("resolve", 401, "Token invalido")
    ELSE Accept("resolve", token.sub, NoToken, NoPlain, NoToken)

ResolveResult(token) ==
    IF verify_token(token, "access", now) # "ok"
    THEN Reject("resolve", 401, verify_token(token, "access", now))
    ELSE IF token.sub = NoUser
    THEN Reject("resolve", 500, "Error interno del servidor: 401: Token invalido: ID de usuario no encontrado")
    ELSE IF ~users[token.sub].exists
    THEN Reject("resolve", 500, "Error interno del servidor: 401: Usuario no encontrado")
    ELSE IF ~users[token.sub].is_active
    THEN Reject("resolve", 500, "Error interno del servidor: 401: Usuario inactivo")
    ELSE Accept("resolve", token.sub, NoToken, NoPlain, NoToken)

get_current_user(token) ==
    /\ resp' = ResolveResult(token)
    /\ UNCHANGED <<users, refresh_tokens, held, nextPlain>>
    /\ Frame

\* ---------------------------------------------------------- environment
\* an administrative update of users.is_active
SetActive(user_id, active) ==
    /\ users[user_id].exists
    /\ users[user_id].is_active # active
    /\ users' = [users EXCEPT ![user_id].is_active = active]
    /\ UNCHANGED <<refresh_tokens, now, held, nextPlain, two_factor_secret_key, resp, procs,
                   resources>>

\* datetime.now(timezone.utc) advances
Tick ==
    /\ now < MaxTime
    /\ now' = now + 1
    /\ UNCHANGED <<users, refresh_tokens, held, nextPlain, two_factor_secret_key, resp, procs,
                   resources>>

BearerValues == ({held} \ {NoToken}) \cup {Malformed}
RefreshValues == 0..(nextPlain - 1)

KeycloakUser == {"id", "none", "raise"}
KeycloakOtp == {"qr", "empty"}

\* the whole auth router with the strict resolver
Next ==
    \/ \E e \in UserIds \cup {UnknownEmail}, p \in Passwords : login(e, p)
    \/ \E t \in RefreshValues : refresh_token(t)
    \/ \E tok \in BearerValues : logout(tok)
    \/ \E tok \in BearerValues : auth_me(tok)
    \/ \E tok \in BearerValues, c \in Passwords, n \in Passwords \cup {WeakPassword} :
            change_password(tok, c, n)
    \/ \E tok \in BearerValues, otp \in OtpCodes : verify_2fa(tok, otp)
    \/ \E tok \in BearerValues, ku \in KeycloakUser, ko \in KeycloakOtp :
            enable_2fa(tok, ku, ko)
    \/ \E tok \in BearerValues, otp \in OtpCodes : confirm_2fa(tok, otp)
    \/ \E tok \in BearerValues : get_2fa_status(tok)
    \/ \E tok \in BearerValues : disable_2fa(tok)
    \/ \E tok \in BearerValues : get_current_user(tok)
    \/ \E u \in UserIds, b \in BOOLEAN : SetActive(u, b)
    \/ Tick

Spec == Init /\ [][Next]_vars

\* the flows that mint tokens: login, refresh, the two-factor step-up and its
\* enrolment, logout
NextFlow ==
    \/ \E e \in UserIds \cup {UnknownEmail}, p \in Passwords : login(e, p)
    \/ \E t \in RefreshValues : refresh_token(t)
    \/ \E tok \in BearerValues : logout(tok)
    \/ \E tok \in BearerValues, otp \in OtpCodes : verify_2fa(tok, otp)
    \/ \E tok \in BearerValues, ku \in KeycloakUser, ko \in KeycloakOtp :
            enable_2fa(tok, ku, ko)
    \/ \E tok \in BearerValues, otp \in OtpCodes : confirm_2fa(tok, otp)
    \/ \E u \in UserIds, b \in BOOLEAN : SetActive(u, b)
    \/ Tick

SpecFlow == Init /\ [][NextFlow]_vars

\* enrolment against an identity provider whose OTP set-up fails: setup_otp
\* returns {} at every call, so no enable-2fa call returns a provisioning payload
NextEnroll ==
    \/ \E e \in UserIds \cup {UnknownEmail}, p \in Passwords : login(e, p)
    \/ \E tok \in BearerValues, ku \in KeycloakUser : enable_2fa(tok, ku, "empty")
    \/ \E tok \in BearerValues, otp \in OtpCodes : confirm_2fa(tok, otp)
    \/ \E tok \in BearerValues : get_2fa_status(tok)
    \/ \E u \in UserIds, b \in BOOLEAN : SetActive(u, b)
    \/ Tick

SpecEnroll == Init /\ [][NextEnroll]_vars

\* the operations gated by an access token, with login and enrolment to obtain
\* the tokens they are called with
NextGate ==
    \/ \E e \in UserIds \cup {UnknownEmail}, p \in Passwords : login(e, p)
    \/ \E tok \in BearerValues : logout(tok)
    \/ \E tok \in BearerValues : auth_me(tok)
    \/ \E tok \in BearerValues, c \in Passwords, n \in Passwords \cup {WeakPassword} :
            change_password(tok, c, n)
    \/ \E tok \in BearerValues, ku \in KeycloakUser, ko \in KeycloakOtp :
            enable_2fa(tok, ku, ko)
    \/ \E tok \in BearerValues, otp \in OtpCodes : confirm_2fa(tok, otp)
    \/ \E tok \in BearerValues : get_2fa_status(tok)
    \/ \E tok \in BearerValues : disable_2fa(tok)
    \/ \E tok \in BearerValues : get_current_user(tok)
    \/ \E u \in UserIds, b \in BOOLEAN : SetActive(u, b)
    \/ Tick

SpecGate == Init /\ [][NextGate]_vars

\* ------------------------------------------- concurrent refresh requests
\* Each request runs refresh_token between its store calls: the SELECT of the
\* refresh row, the SELECT of the user, and the INSERT of the new row.
NumProcs == 2
ProcIds == 1..NumProcs

Idle == [pc |-> "idle", token |-> NoPlain, row_user |-> NoUser,
         status |-> 0, new |-> NoPlain]

\* the store after one login of account 1 at time 0
ConcInitRow == RefreshRow(1, 1, 0, "login")

InitConc ==
    /\ users = [u \in UserIds |-> InitUser]
    /\ refresh_tokens = {ConcInitRow}
    /\ now = 0
    /\ held = NoToken
    /\ nextPlain = 2
    /\ two_factor_secret_key \in {NoSecret, TWO_FACTOR_SECRET}
    /\ resp = NoResp
    /\ procs = [p \in ProcIds |-> Idle]
    /\ resources = <<>>

ProcFrame == UNCHANGED <<users, now, held, two_factor_secret_key, resp, resources>>

RefreshBegin(p, token_plain) ==
    /\ procs[p].pc = "idle"
    /\ procs' = [procs EXCEPT ![p].pc = "select_token", ![p].token = token_plain]
    /\ UNCHANGED <<refresh_tokens, nextPlain>>
    /\ ProcFrame

RefreshSelectToken(p) ==
    /\ procs[p].pc = "select_token"
    /\ LET rows == LookupRefresh(refresh_tokens, procs[p].token, now) IN
       procs' = IF rows = {}
                THEN [procs EXCEPT ![p].pc = "done", ![p].status = 401]
                ELSE [procs EXCEPT ![p].pc = "select_user",
                                   ![p].row_user = (CHOOSE r \in rows : TRUE).user_id]
    /\ UNCHANGED <<refresh_tokens, nextPlain>>
    /\ ProcFrame

RefreshSelectUser(p) ==
    /\ procs[p].pc = "select_user"
    /\ LET u == procs[p].row_user IN
       procs' = IF users[u].exists /\ users[u].is_active
                THEN [procs EXCEPT ![p].pc = "insert"]
                ELSE [procs EXCEPT ![p].pc = "done", ![p].status = 401]
    /\ UNCHANGED <<refresh_tokens, nextPlain>>
    /\ ProcFrame

\* the INSERT step of a refresh that also deletes the presented row
RefreshInsert_rotate(p) ==
    /\ procs[p].pc = "insert"
    /\ refresh_tokens' =
            {x \in refresh_tokens : x.token_hash # sha256(procs[p].token)} \cup
            {RefreshRow(procs[p].row_user, nextPlain, now, "login")}
    /\ nextPlain' = nextPlain + 1
    /\ procs' = [procs EXCEPT ![p].pc = "done", ![p].status = 200, ![p].new = nextPlain]
    /\ ProcFrame

RefreshInsert(p) ==
    /\ procs[p].pc = "insert"
    /\ refresh_tokens' = refresh_tokens \cup
            {RefreshRow(procs[p].row_user, nextPlain, now, "login")}
    /\ nextPlain' = nextPlain + 1
    /\ procs' = [procs EXCEPT ![p].pc = "done", ![p].status = 200, ![p].new = nextPlain]
    /\ ProcFrame

NextConc ==
    \/ \E p \in ProcIds, t \in {UnknownRefresh, 1} : RefreshBegin(p, t)
    \/ \E p \in ProcIds : RefreshSelectToken(p)
    \/ \E p \in ProcIds : RefreshSelectUser(p)
    \/ \E p \in ProcIds : RefreshInsert(p)
    \/ Tick

SpecConc == InitConc /\ [][NextConc]_vars

\* ------------------------- change-password among in-flight refresh requests
\* The caller holds the access token of the login that created ConcInitRow.
\* change_password runs its UPDATE and its bulk DELETE in one request; the
\* refresh requests run step by step around it.
InitPwd ==
    /\ users = [u \in UserIds |-> InitUser]
    /\ refresh_tokens = {ConcInitRow}
    /\ now = 0
    /\ held = create_access_token([u \in UserIds |-> InitUser], 1, 0)
    /\ nextPlain = 2
    /\ two_factor_secret_key \in {NoSecret, TWO_FACTOR_SECRET}
    /\ resp = NoResp
    /\ procs = [p \in ProcIds |-> Idle]
    /\ resources = <<>>

NextPwd ==
    \/ \E p \in ProcIds, t \in {UnknownRefresh, 1} : RefreshBegin(p, t)
    \/ \E p \in ProcIds : RefreshSelectToken(p)
    \/ \E p \in ProcIds : RefreshSelectUser(p)
    \/ \E p \in ProcIds : RefreshInsert(p)
    \/ \E tok \in BearerValues, c \in Passwords, n \in Passwords \cup {WeakPassword} :
            change_password(tok, c, n)
    \/ Tick

SpecPwd == InitPwd /\ [][NextPwd]_vars


\* ------------------------------------------------- TokenService primitives
\* The methods of TokenService called one at a time on a store shared by two
\* accounts; resp holds what the last call returned.
SvcUsers == {1, 2}

SvcRet(op, token, user, ok) == [op |-> op, token |-> token, user |-> user, ok |-> ok]

\* a record of account 2 issued before the clock starts, expiring at time 1
SvcOldRow == RefreshRow(2, 1, 1 - RefreshTTL, "issue")

SvcCanStore == Cardinality(refresh_tokens) <= MaxRecords /\ nextPlain <= MaxRecords + 1

SvcFrame == UNCHANGED <<users, now, held, two_factor_secret_key, procs, resources>>

InitTokens ==
    /\ users = [u \in SvcUsers |-> InitUser]
    /\ refresh_tokens = {SvcOldRow}
    /\ now = 0
    /\ held = NoToken
    /\ nextPlain = 2
    /\ two_factor_secret_key = NoSecret
    /\ resp = SvcRet("none", NoPlain, NoUser, FALSE)
    /\ procs = <<>>
    /\ resources = <<>>

create_refresh_token_for_user(user_id) ==
    /\ SvcCanStore
    /\ refresh_tokens' = refresh_tokens \cup {RefreshRow(user_id, nextPlain, now, "issue")}
    /\ nextPlain' = nextPlain + 1
    /\ resp' = SvcRet("create", nextPlain, user_id, TRUE)
    /\ SvcFrame

verify_user_refresh_token(token_plain) ==
    /\ resp' = SvcRet("verify", token_plain,
                      verify_refresh_token(users, refresh_tokens, token_plain, now), TRUE)
    /\ UNCHANGED <<refresh_tokens, nextPlain>>
    /\ SvcFrame

\* revoke that deletes every record of the account owning the presented one
revoke_refresh_token_account(token_plain) ==
    LET hit == {r \in refresh_tokens : r.token_hash = sha256(token_plain)}
        deleted == {r \in refresh_tokens : \E h \in hit : r.user_id = h.user_id} IN
    /\ refresh_tokens' = refresh_tokens \ deleted
    /\ resp' = SvcRet("revoke", token_plain, NoUser, Cardinality(deleted) > 0)
    /\ UNCHANGED nextPlain
    /\ SvcFrame

\* DELETE ... WHERE token_hash = :hash; returns rowcount > 0
revoke_refresh_token(token_plain) ==
    LET deleted == {r \in refresh_tokens : r.token_hash = sha256(token_plain)} IN
    /\ refresh_tokens' = refresh_tokens \ deleted
    /\ resp' = SvcRet("revoke", token_plain, NoUser, Cardinality(deleted) > 0)
    /\ UNCHANGED nextPlain
    /\ SvcFrame

\* DELETE ... WHERE expires_at < now; returns rowcount
cleanup_expired_tokens ==
    LET deleted == {r \in refresh_tokens : r.expires_at < now} IN
    /\ refresh_tokens' = refresh_tokens \ deleted
    /\ resp' = [op |-> "cleanup", token |-> NoPlain, user |-> NoUser, ok |-> TRUE,
                count |-> Cardinality(deleted)]
    /\ UNCHANGED nextPlain
    /\ SvcFrame

NextTokens ==
    \/ cleanup_expired_tokens
    \/ \E u \in SvcUsers : create_refresh_token_for_user(u)
    \/ \E t \in RefreshValues : verify_user_refresh_token(t)
    \/ \E t \in RefreshValues : revoke_refresh_token(t)
    \/ \E u \in SvcUsers, b \in BOOLEAN : SetActive(u, b)
    \/ Tick

SpecTokens == InitTokens /\ [][NextTokens]_vars


\* ------------------------------------------------ rotate_refresh_token
\* TokenService.rotate_refresh_token is revoke_refresh_token (DELETE, commit)
\* followed by create_refresh_token_for_user (INSERT, commit); the result of
\* the revoke is not looked at. Calls run step by step on the store left by one
\* login of account 1.
InitRotate ==
    /\ users = [u \in SvcUsers |-> InitUser]
    /\ refresh_tokens = {ConcInitRow}
    /\ now = 0
    /\ held = NoToken
    /\ nextPlain = 2
    /\ two_factor_secret_key = NoSecret
    /\ resp = NoResp
    /\ procs = [p \in ProcIds |-> Idle]
    /\ resources = <<>>

RotateBegin(p, old_token, user_id) ==
    /\ procs[p].pc = "idle"
    /\ procs' = [procs EXCEPT ![p].pc = "rotate_revoke", ![p].token = old_token,
                              ![p].row_user = user_id]
    /\ UNCHANGED <<refresh_tokens, nextPlain>>
    /\ ProcFrame

RotateRevoke(p) ==
    /\ procs[p].pc = "rotate_revoke"
    /\ refresh_tokens' = {r \in refresh_tokens : r.token_hash # sha256(procs[p].token)}
    /\ procs' = [procs EXCEPT ![p].pc = "rotate_create"]
    /\ UNCHANGED nextPlain
    /\ ProcFrame

RotateCreate(p) ==
    /\ procs[p].pc = "rotate_create"
    /\ refresh_tokens' = refresh_tokens \cup
            {RefreshRow(procs[p].row_user, nextPlain, now, "rotate")}
    /\ nextPlain' = nextPlain + 1
    /\ procs' = [procs EXCEPT ![p].pc = "done", ![p].status = 200, ![p].new = nextPlain]
    /\ ProcFrame

NextRotate ==
    \/ \E p \in ProcIds, t \in {UnknownRefresh, 1}, u \in SvcUsers : RotateBegin(p, t, u)
    \/ \E p \in ProcIds : RotateRevoke(p)
    \/ \E p \in ProcIds : RotateCreate(p)
    \/ Tick

SpecRotate == InitRotate /\ [][NextRotate]_vars


\* --------------------------------------------------- permissions, ownership
\* callers of the content routers, already resolved by get_current_user
OwnerUsers == 1..5

\* Role.name of each caller; "user" is the role name that jwt_handler falls back
\* to, which is not a key of ROLE_PERMISSIONS
OwnerRole == <<"desarrolladora", "desarrolladora", "editor", "superadmin", "user">>

\* User.email of each caller
EmailOf == <<"dev1@test.com", "dev2@test.com", "editor@test.com", "admin@test.com",
             "user@test.com">>

AuthPermissions == {"auth:login", "auth:logout", "auth:refresh", "auth:change_password"}
VideojuegoPermissions ==
    {"videojuego:read", "videojuego:create", "videojuego:update", "videojuego:delete"}
DesarrolladoraPermissions ==
    {"desarrolladora:read", "desarrolladora:create", "desarrolladora:update",
     "desarrolladora:delete"}

UserPermissions == {"user:read", "user:create", "user:update", "user:delete"}
RolePermissions == {"role:read", "role:create", "role:update", "role:delete"}

\* every permission of the Permissions class
AllPermissions ==
    AuthPermissions \cup UserPermissions \cup RolePermissions \cup VideojuegoPermissions \cup
    DesarrolladoraPermissions

\* a table that gives the editor the whole desarrolladora set
ROLE_PERMISSIONS_editorfull ==
    [role \in {"desarrolladora", "editor", "superadmin"} |->
        CASE role = "desarrolladora" ->
                AuthPermissions \cup VideojuegoPermissions \cup DesarrolladoraPermissions
          [] role = "editor" ->
                AuthPermissions \cup VideojuegoPermissions \cup DesarrolladoraPermissions
          [] role = "superadmin" -> AllPermissions]

ROLE_PERMISSIONS ==
    [role \in {"desarrolladora", "editor", "superadmin"} |->
        CASE role = "desarrolladora" ->
                AuthPermissions \cup VideojuegoPermissions \cup DesarrolladoraPermissions
          [] role = "editor" ->
                AuthPermissions \cup VideojuegoPermissions \cup {"desarrolladora:read"}
          [] role = "superadmin" ->
                AuthPermissions \cup VideojuegoPermissions \cup DesarrolladoraPermissions \cup
                {"user:read", "user:create", "user:update", "user:delete",
                 "role:read", "role:create", "role:update", "role:delete"}]

\* has_permission that only asks for a role
has_permission_anyrole(user, permission) ==
    user.exists /\ user.role # Null

has_permission(user, permission) ==
    IF ~user.exists \/ user.role = Null THEN FALSE
    ELSE IF user.role \notin DOMAIN ROLE_PERMISSIONS THEN FALSE
    ELSE permission \in ROLE_PERMISSIONS[user.role]

has_any_permission(user, permissions) ==
    IF ~user.exists \/ user.role = Null THEN FALSE
    ELSE IF user.role \notin DOMAIN ROLE_PERMISSIONS THEN FALSE
    ELSE \E permission \in permissions : permission \in ROLE_PERMISSIONS[user.role]

\* owner fields of a resource payload; "" and 0 stand for an absent or empty field
OwnerData ==
    [owner_email : {"", "dev1@test.com", "dev2@test.com"}, owner_id : {0, 1, 2},
     created_by_email : {"", "dev1@test.com"}, created_by_id : {0, 1}]

NoOwnerData == [owner_email |-> "", owner_id |-> 0, created_by_email |-> "", created_by_id |-> 0]

\* What awaiting proxy_service.get gives verify_resource_ownership:
\*   kind "raise"        an exception (status: the HTTPException of forward_request)
\*   kind "JSONResponse" the fastapi JSONResponse that ProxyService returns
\*   kind "None"         nothing
\*   kind "dict"         a parsed payload, from a delegate that returns one
\* data is "dict", "missing" or "notdict" (the "data" member of the payload)
Reply(kind, status, success, data, owner) ==
    [kind |-> kind, status |-> status, success |-> success, data |-> data, owner |-> owner]

Replies ==
    {Reply("raise", st, FALSE, "missing", NoOwnerData) : st \in {504, 503, 500}} \cup
    {Reply("None", 0, FALSE, "missing", NoOwnerData)} \cup
    {Reply("JSONResponse", 200, TRUE, "dict", o) : o \in OwnerData} \cup
    {Reply("JSONResponse", 404, FALSE, "missing", NoOwnerData)} \cup
    {Reply("dict", 200, TRUE, "dict", o) : o \in OwnerData} \cup
    {Reply("dict", 200, ok, d, NoOwnerData) : ok \in BOOLEAN, d \in {"missing", "notdict"}} \cup
    {Reply("dict", 200, FALSE, "dict", o) : o \in OwnerData}

\* ProxyService.get -> forward_request: the JSONResponse of _process_response,
\* or the HTTPException of a transport failure
ProxyGet(transport, record) ==
    IF transport = "timeout" THEN Reply("raise", 504, FALSE, "missing", NoOwnerData)
    ELSE IF transport = "connect" THEN Reply("raise", 503, FALSE, "missing", NoOwnerData)
    ELSE IF transport = "error" THEN Reply("raise", 500, FALSE, "missing", NoOwnerData)
    ELSE IF record.state = "deleted" THEN Reply("JSONResponse", 404, FALSE, "missing", NoOwnerData)
    ELSE Reply("JSONResponse", 200, TRUE, "dict", record.owner)

OwnerMatch(owner, user_id) ==
    LET owner_email == IF owner.owner_email # "" THEN owner.owner_email ELSE owner.created_by_email
        owner_id == IF owner.owner_id # 0 THEN owner.owner_id ELSE owner.created_by_id IN
    IF owner_email # "" /\ owner_email = EmailOf[user_id] THEN TRUE
    ELSE IF owner_id # 0 /\ owner_id = user_id THEN TRUE
    ELSE FALSE

\* verify_resource_ownership with the resource type tested before the fallback
verify_resource_ownership_typefirst(resource_type, user_id, proxy_service, reply) ==
    IF resource_type \notin {"videojuego", "desarrolladora"} THEN "False"
    ELSE IF proxy_service = "none" THEN "True"
    ELSE IF reply.kind # "dict" THEN "False"
    ELSE IF ~reply.success THEN "False"
    ELSE IF reply.data = "notdict" THEN "False"
    ELSE IF reply.data = "missing" THEN "False"
    ELSE IF OwnerMatch(reply.owner, user_id) THEN "True" ELSE "False"

\* verify_resource_ownership whose except clause re-raises
verify_resource_ownership_reraise(resource_type, user_id, proxy_service, reply) ==
    IF proxy_service = "none" THEN "True"
    ELSE IF resource_type \notin {"videojuego", "desarrolladora"} THEN "False"
    ELSE IF reply.kind = "raise" THEN "raise"
    ELSE IF reply.kind = "None" THEN "False"
    ELSE IF reply.kind = "JSONResponse" THEN "raise"
    ELSE IF ~reply.success THEN "False"
    ELSE IF reply.data = "notdict" THEN "raise"
    ELSE IF reply.data = "missing" THEN "False"
    ELSE IF OwnerMatch(reply.owner, user_id) THEN "True" ELSE "False"

\* verify_resource_ownership: "True", "False", or "raise" for an exception
\* leaving the function. A JSONResponse has no get method, and neither has a
\* "data" member that is not a dict: the AttributeError is caught by the
\* function's except clause, like the exception of a failed request.
verify_resource_ownership(resource_type, user_id, proxy_service, reply) ==
    IF proxy_service = "none" THEN "True"
    ELSE IF resource_type \notin {"videojuego", "desarrolladora"} THEN "False"
    ELSE IF reply.kind = "raise" THEN "False"
    ELSE IF reply.kind = "None" THEN "False"
    ELSE IF reply.kind = "JSONResponse" THEN "False"
    ELSE IF ~reply.success THEN "False"
    ELSE IF reply.data = "notdict" THEN "False"
    ELSE IF reply.data = "missing" THEN "False"
    ELSE IF OwnerMatch(reply.owner, user_id) THEN "True" ELSE "False"

ResourceTypes == {"videojuego", "desarrolladora", "invalid_type"}

OwnerCall(resource_type, user_id, proxy_service, reply, result) ==
    [op |-> "verify_resource_ownership", resource_type |-> resource_type,
     user |-> user_id, proxy_service |-> proxy_service, reply |-> reply, result |-> result]

\* the arguments of one call, and what the delegate will answer; the result is
\* "pending" until the call returns
InitOwnership ==
    /\ users = [u \in OwnerUsers |-> [InitUser EXCEPT !.role = OwnerRole[u]]]
    /\ refresh_tokens = {}
    /\ now = 0
    /\ held = NoToken
    /\ nextPlain = 1
    /\ two_factor_secret_key = NoSecret
    /\ \E rt \in ResourceTypes, u \in OwnerUsers, ps \in {"none", "delegate"}, reply \in Replies :
            resp = OwnerCall(rt, u, ps, reply, "pending")
    /\ procs = <<>>
    /\ resources = <<>>

VerifyOwnership ==
    /\ resp.result = "pending"
    /\ resp' = [resp EXCEPT !.result =
                    verify_resource_ownership(resp.resource_type, resp.user,
                                              resp.proxy_service, resp.reply)]
    /\ UNCHANGED <<users, refresh_tokens, now, held, nextPlain, two_factor_secret_key, procs,
                   resources>>

NextOwnership == VerifyOwnership

SpecOwnership == InitOwnership /\ [][NextOwnership]_vars

\* -------------------------------------------- content routers (proxy)
\* One videojuego and one desarrolladora in the content service; the routers
\* are injected the ProxyService of get_proxy_service.
Transport == {"ok", "timeout", "connect", "error"}
FwdTransport == {"ok", "timeout"}

TransportStatus(transport) ==
    IF transport = "timeout" THEN 504 ELSE IF transport = "connect" THEN 503 ELSE 500

Record(owner, state) == [owner |-> owner, state |-> state]

\* the router's answer, and whether it called the content service for the write
ContentResp(op, user_id, status, forwarded) ==
    [op |-> op, status |-> status, forwarded |-> forwarded]

InitContent ==
    /\ users = [u \in OwnerUsers |-> [InitUser EXCEPT !.role = OwnerRole[u]]]
    /\ refresh_tokens = {}
    /\ now = 0
    /\ held = NoToken
    /\ nextPlain = 1
    /\ two_factor_secret_key = NoSecret
    /\ resp = ContentResp("none", NoUser, 0, FALSE)
    /\ procs = <<>>
    /\ \E vo \in OwnerData, do \in {o \in OwnerData : o.created_by_email = "" /\ o.owner_id = 0} :
            resources = [videojuego |-> Record(vo, "original"),
                         desarrolladora |-> Record(do, "original")]

ContentFrame ==
    UNCHANGED <<users, refresh_tokens, now, held, nextPlain, two_factor_secret_key, procs>>

\* the content service applying a forwarded PUT or DELETE
Forward(op, kind, user_id, new_state, transport) ==
    IF transport # "ok"
    THEN /\ resp' = ContentResp(op, user_id, TransportStatus(transport), TRUE)
         /\ UNCHANGED resources
    ELSE IF resources[kind].state = "deleted"
    THEN /\ resp' = ContentResp(op, user_id, 404, TRUE)
         /\ UNCHANGED resources
    ELSE /\ resp' = ContentResp(op, user_id, 200, TRUE)
         /\ resources' = [resources EXCEPT ![kind].state = new_state]

VideojuegoWrite(op, permission, new_state, user_id, get_transport, fwd_transport) ==
    /\ IF ~has_permission(users[user_id], permission)
       THEN /\ resp' = ContentResp(op, user_id, 403, FALSE)
            /\ UNCHANGED resources
       ELSE IF /\ users[user_id].role = "desarrolladora"
               /\ verify_resource_ownership("videojuego", user_id, "delegate",
                        ProxyGet(get_transport, resources.videojuego)) # "True"
       THEN /\ resp' = ContentResp(op, user_id, 403, FALSE)
            /\ UNCHANGED resources
       ELSE Forward(op, "videojuego", user_id, new_state, fwd_transport)
    /\ ContentFrame

update_videojuego(user_id, get_transport, fwd_transport) ==
    VideojuegoWrite("update_videojuego", "videojuego:update", "updated",
                    user_id, get_transport, fwd_transport)

delete_videojuego(user_id, get_transport, fwd_transport) ==
    VideojuegoWrite("delete_videojuego", "videojuego:delete", "deleted",
                    user_id, get_transport, fwd_transport)

DesarrolladoraWrite(op, permission, new_state, user_id, fwd_transport) ==
    /\ IF ~has_permission(users[user_id], permission)
       THEN /\ resp' = ContentResp(op, user_id, 403, FALSE)
            /\ UNCHANGED resources
       ELSE Forward(op, "desarrolladora", user_id, new_state, fwd_transport)
    /\ ContentFrame

update_desarrolladora(user_id, fwd_transport) ==
    DesarrolladoraWrite("update_desarrolladora", "desarrolladora:update", "updated",
                        user_id, fwd_transport)

delete_desarrolladora(user_id, fwd_transport) ==
    DesarrolladoraWrite("delete_desarrolladora", "desarrolladora:delete", "deleted",
                        user_id, fwd_transport)

\* a forwarded POST: the content service adds a record of its own, the two
\* records followed here stay as they are
ContentCreate(op, permission, user_id, fwd_transport) ==
    /\ IF ~has_permission(users[user_id], permission)
       THEN resp' = ContentResp(op, user_id, 403, FALSE)
       ELSE IF fwd_transport # "ok"
       THEN resp' = ContentResp(op, user_id, TransportStatus(fwd_transport), TRUE)
       ELSE resp' = ContentResp(op, user_id, 201, TRUE)
    /\ UNCHANGED resources
    /\ ContentFrame

create_videojuego(user_id, fwd_transport) ==
    ContentCreate("create_videojuego", "videojuego:create", user_id, fwd_transport)

create_desarrolladora(user_id, fwd_transport) ==
    ContentCreate("create_desarrolladora", "desarrolladora:create", user_id, fwd_transport)

get_desarrolladora(user_id, fwd_transport) ==
    /\ IF ~has_permission(users[user_id], "desarrolladora:read")
       THEN resp' = ContentResp("get_desarrolladora", user_id, 403, FALSE)
       ELSE IF fwd_transport # "ok"
       THEN resp' = ContentResp("get_desarrolladora", user_id,
                                TransportStatus(fwd_transport), TRUE)
       ELSE resp' = ContentResp("get_desarrolladora", user_id,
                                ProxyGet("ok", resources.desarrolladora).status, TRUE)
    /\ UNCHANGED resources
    /\ ContentFrame

NextContent ==
    \/ \E u \in OwnerUsers, f \in FwdTransport : create_videojuego(u, f)
    \/ \E u \in OwnerUsers, f \in FwdTransport : create_desarrolladora(u, f)
    \/ \E u \in OwnerUsers, f \in FwdTransport : get_desarrolladora(u, f)
    \/ \E u \in OwnerUsers, g \in Transport, f \in FwdTransport : update_videojuego(u, g, f)
    \/ \E u \in OwnerUsers, g \in Transport, f \in FwdTransport : delete_videojuego(u, g, f)
    \/ \E u \in OwnerUsers, f \in FwdTransport : update_desarrolladora(u, f)
    \/ \E u \in OwnerUsers, f \in FwdTransport : delete_desarrolladora(u, f)

SpecContent == InitContent /\ [][NextContent]_vars

\* the content routers over one videojuego that names dev1 as its owner, or
\* names no owner, and one desarrolladora that names none
InitForward ==
    /\ users = [u \in OwnerUsers |-> [InitUser EXCEPT !.role = OwnerRole[u]]]
    /\ refresh_tokens = {}
    /\ now = 0
    /\ held = NoToken
    /\ nextPlain = 1
    /\ two_factor_secret_key = NoSecret
    /\ resp = ContentResp("none", NoUser, 0, FALSE)
    /\ procs = <<>>
    /\ \E vo \in {NoOwnerData, [NoOwnerData EXCEPT !.owner_email = "dev1@test.com"]} :
            resources = [videojuego |-> Record(vo, "original"),
                         desarrolladora |-> Record(NoOwnerData, "original")]

SpecForward == InitForward /\ [][NextContent]_vars


\* -------------------------------------------- administration router
\* Callers present a valid access token of their account. Besides the three
\* roles of init_roles, one account carries a role named "admin", the name
\* get_current_admin_user asks for.
AdminUsers == 1..4

AdminRole == <<"desarrolladora", "editor", "superadmin", "admin">>

AdminResp(op, user_id, status, detail) ==
    [op |-> op, user |-> user_id, status |-> status, detail |-> detail]

InitAdmin ==
    /\ users = [u \in AdminUsers |-> [InitUser EXCEPT !.role = AdminRole[u]]]
    /\ refresh_tokens = {}
    /\ now = 0
    /\ held = NoToken
    /\ nextPlain = 1
    /\ two_factor_secret_key = NoSecret
    /\ resp = AdminResp("none", NoUser, 0, "")
    /\ procs = <<>>
    /\ resources = <<>>

\* the dependency behind CurrentAdminUser: get_current_user, then the role name
get_current_admin_user(user_id) ==
    IF ~users[user_id].is_active
    THEN [status |-> 500, detail |-> "Error interno del servidor: 401: Usuario inactivo"]
    ELSE IF users[user_id].role = Null \/ users[user_id].role # "admin"
    THEN [status |-> 403,
          detail |-> "Acceso denegado: Se requieren permisos de administrador"]
    ELSE [status |-> 200, detail |-> ""]

AdminRead(op, permission, denied, user_id) ==
    /\ LET dep == get_current_admin_user(user_id) IN
         IF dep.status # 200
         THEN resp' = AdminResp(op, user_id, dep.status, dep.detail)
         ELSE IF ~has_permission(users[user_id], permission)
         THEN resp' = AdminResp(op, user_id, 403, denied)
         ELSE resp' = AdminResp(op, user_id, 200, "")
    /\ UNCHANGED <<users, refresh_tokens, now, held, nextPlain, two_factor_secret_key, procs,
                   resources>>

list_users(user_id) ==
    AdminRead("list_users", "user:read", "No tienes permisos para leer usuarios", user_id)

\* the account asked for is one of the table
get_user(user_id) ==
    AdminRead("get_user", "user:read", "No tienes permisos para leer usuarios", user_id)

list_roles(user_id) ==
    AdminRead("list_roles", "role:read", "No tienes permisos para leer roles", user_id)

get_system_stats(user_id) ==
    AdminRead("get_system_stats", "user:read", "No tienes permisos para ver estadísticas",
              user_id)

AdminSetActive(user_id, active) ==
    /\ users[user_id].is_active # active
    /\ users' = [users EXCEPT ![user_id].is_active = active]
    /\ UNCHANGED <<refresh_tokens, now, held, nextPlain, two_factor_secret_key, resp, procs,
                   resources>>

NextAdmin ==
    \/ \E u \in AdminUsers : list_users(u)
    \/ \E u \in AdminUsers : get_user(u)
    \/ \E u \in AdminUsers : list_roles(u)
    \/ \E u \in AdminUsers : get_system_stats(u)
    \/ \E u \in AdminUsers, a \in BOOLEAN : AdminSetActive(u, a)

SpecAdmin == InitAdmin /\ [][NextAdmin]_vars


\* -------------------------------------------- permission checks
\* has_permission and has_any_permission as functions of their arguments: the
\* account (None, or a User with its role and active flag) and the permissions
\* asked for. A permission list is followed as the set of its members.
MaxPermissions == 2

PermRoles == {"desarrolladora", "editor", "superadmin", "unknown_role", "user", Null}

NoAccount == [exists |-> FALSE, role |-> Null, is_active |-> FALSE]

PermAccounts ==
    {NoAccount} \cup [exists : {TRUE}, role : PermRoles, is_active : BOOLEAN]

PermissionLists == {ps \in SUBSET AllPermissions : Cardinality(ps) <= MaxPermissions}

PermCall(fn, user, permissions, result) ==
    [fn |-> fn, user |-> user, permissions |-> permissions, result |-> result]

InitPerm ==
    /\ users = <<>>
    /\ refresh_tokens = {}
    /\ now = 0
    /\ held = NoToken
    /\ nextPlain = 1
    /\ two_factor_secret_key = NoSecret
    /\ \E user \in PermAccounts :
         \/ \E permission \in AllPermissions :
                resp = PermCall("has_permission", user, {permission}, "pending")
         \/ \E permissions \in PermissionLists :
                resp = PermCall("has_any_permission", user, permissions, "pending")
    /\ procs = <<>>
    /\ resources = <<>>

PermFrame ==
    UNCHANGED <<users, refresh_tokens, now, held, nextPlain, two_factor_secret_key, procs,
                resources>>

CallHasPermission ==
    /\ resp.fn = "has_permission" /\ resp.result = "pending"
    /\ resp' = [resp EXCEPT !.result =
                    IF has_permission(resp.user, CHOOSE p \in resp.permissions : TRUE)
                    THEN "True" ELSE "False"]
    /\ PermFrame

CallHasAnyPermission ==
    /\ resp.fn = "has_any_permission" /\ resp.result = "pending"
    /\ resp' = [resp EXCEPT !.result =
                    IF has_any_permission(resp.user, resp.permissions)
                    THEN "True" ELSE "False"]
    /\ PermFrame

NextPerm == CallHasPermission \/ CallHasAnyPermission

SpecPerm == InitPerm /\ [][NextPerm]_vars


\* -------------------------------------------- strict and optional resolver
\* Both resolvers over one request: the users table, the clock and the
\* Authorization header (held; NoToken for a request without one) are drawn
\* at the start. Besides the tokens the gateway issues, the header may carry
\* a signed token without a subject, one signed with another key, and a
\* token of an account that is no longer in the table.
ResolveCredentials ==
    {NoToken, Malformed} \cup
    [type : {"access", "2fa_temp"}, sub : {NoUser} \cup UserIds, role : {"editor"},
     is_active : {TRUE}, status : {Null}, exp : 0..(MaxTime + 1),
     key : {JWT_SECRET_KEY, TWO_FACTOR_SECRET}]

InitResolve ==
    /\ \E ex \in BOOLEAN, a \in BOOLEAN :
            users = [u \in UserIds |-> [InitUser EXCEPT !.exists = ex, !.is_active = a]]
    /\ refresh_tokens = {}
    /\ now \in 0..MaxTime
    /\ held \in ResolveCredentials
    /\ nextPlain = 1
    /\ two_factor_secret_key = NoSecret
    /\ resp = NoResp
    /\ procs = <<>>
    /\ resources = <<>>

\* get_optional_current_user whose JWT errors leave the function
OptionalResolveResult_noexcept(credentials) ==
    IF credentials = NoToken
    THEN Accept("resolve_optional", NoUser, NoToken, NoPlain, NoToken)
    ELSE IF verify_token(credentials, "access", now) # "ok"
    THEN Reject("resolve_optional", 401, verify_token(credentials, "access", now))
    ELSE IF credentials.sub = NoUser
    THEN Accept("resolve_optional", NoUser, NoToken, NoPlain, NoToken)
    ELSE IF ~users[credentials.sub].exists \/ ~users[credentials.sub].is_active
    THEN Accept("resolve_optional", NoUser, NoToken, NoPlain, NoToken)
    ELSE Accept("resolve_optional", credentials.sub, NoToken, NoPlain, NoToken)

\* get_optional_current_user: the account returned, NoUser for None; a status
\* other than 200 would be an exception leaving the function
OptionalResolveResult(credentials) ==
    IF credentials = NoToken
    THEN Accept("resolve_optional", NoUser, NoToken, NoPlain, NoToken)
    ELSE IF verify_token(credentials, "access", now) # "ok"
    THEN Accept("resolve_optional", NoUser, NoToken, NoPlain, NoToken)
    ELSE IF credentials.sub = NoUser
    THEN Accept("resolve_optional", NoUser, NoToken, NoPlain, NoToken)
    ELSE IF ~users[credentials.sub].exists \/ ~users[credentials.sub].is_active
    THEN Accept("resolve_optional", NoUser, NoToken, NoPlain, NoToken)
    ELSE Accept("resolve_optional", credentials.sub, NoToken, NoPlain, NoToken)

ResolveFrame ==
    UNCHANGED <<users, refresh_tokens, now, held, nextPlain, two_factor_secret_key, procs,
                resources>>

get_optional_current_user(credentials) ==
    /\ resp' = OptionalResolveResult(credentials)
    /\ ResolveFrame

\* the strict resolver is reached only with an Authorization header: without
\* one HTTPBearer() answers before it
StrictResolve(credentials) ==
    /\ credentials # NoToken
    /\ resp' = ResolveResult(credentials)
    /\ ResolveFrame

\* GET /api/videojuegos: forwarded for every caller, in the name of the
\* account the optional resolver returned, if any
ListVideojuegosResult(credentials) ==
    LET current_user == OptionalResolveResult(credentials) IN
    IF current_user.status # 200
    THEN Reject("list_videojuegos", current_user.status, current_user.detail)
    ELSE Accept("list_videojuegos", current_user.user, NoToken, NoPlain, NoToken)

list_videojuegos(credentials) ==
    /\ resp' = ListVideojuegosResult(credentials)
    /\ ResolveFrame

NextResolve ==
    \/ get_optional_current_user(held)
    \/ StrictResolve(held)
    \/ list_videojuegos(held)

SpecResolve == InitResolve /\ [][NextResolve]_vars


\* -------------------------------------------- concurrent registrations
\* The users table as the sequence of its rows, empty at the start; a row's id
\* is its position. Each request runs register statement by statement: the
\* handler gives way at every awaited query and at the commit.
RegEmails == {"dev1@test.com", "dev2@test.com"}

RegRoles == {"desarrolladora", "editor", "superadmin"}

RegIdle == [pc |-> "idle", email |-> "", password |-> "", role |-> Null,
            status |-> 0, created |-> NoUser]

RegRow(email, password, role) ==
    [exists |-> TRUE, email |-> email, password_hash |-> hash_password(password),
     role |-> role, is_active |-> TRUE, two_factor_enabled |-> FALSE,
     two_factor_method |-> Null, keycloak_user_id |-> Null,
     two_factor_configured_at |-> Null]

InitRegister ==
    /\ users = <<>>
    /\ refresh_tokens = {}
    /\ now = 0
    /\ held = NoToken
    /\ nextPlain = 1
    /\ two_factor_secret_key = NoSecret
    /\ resp = NoResp
    /\ procs = [p \in ProcIds |-> RegIdle]
    /\ resources = <<>>

RegFrame ==
    UNCHANGED <<refresh_tokens, now, held, nextPlain, two_factor_secret_key, resp, resources>>

get_user_by_email(tbl, email) == {i \in DOMAIN tbl : tbl[i].email = email}

\* the request arrives; validate_password_complexity
RegisterBegin(p, email, password, role) ==
    /\ procs[p].pc = "idle"
    /\ procs' = IF ~validate_password_complexity(password)
                THEN [procs EXCEPT ![p].pc = "done", ![p].email = email,
                                   ![p].password = password, ![p].role = role,
                                   ![p].status = 400]
                ELSE [procs EXCEPT ![p].pc = "select_email", ![p].email = email,
                                   ![p].password = password, ![p].role = role]
    /\ UNCHANGED users
    /\ RegFrame

\* existing_user = await get_user_by_email(db, request.email)
RegisterSelectEmail(p) ==
    /\ procs[p].pc = "select_email"
    /\ procs' = IF get_user_by_email(users, procs[p].email) # {}
                THEN [procs EXCEPT ![p].pc = "done", ![p].status = 409]
                ELSE [procs EXCEPT ![p].pc = "count"]
    /\ UNCHANGED users
    /\ RegFrame

\* select count(users.id), and the role decided from it
RegisterCount(p) ==
    /\ procs[p].pc = "count"
    /\ LET user_count == Len(users) IN
       procs' = IF user_count = 0
                THEN [procs EXCEPT ![p].pc = "insert", ![p].role = "superadmin"]
                ELSE IF procs[p].role = "superadmin"
                THEN [procs EXCEPT ![p].pc = "done", ![p].status = 403]
                ELSE [procs EXCEPT ![p].pc = "insert"]
    /\ UNCHANGED users
    /\ RegFrame

\* the commit on a table without the unique index on email
RegisterInsert_nounique(p) ==
    /\ procs[p].pc = "insert"
    /\ users' = Append(users, RegRow(procs[p].email, procs[p].password, procs[p].role))
    /\ procs' = [procs EXCEPT ![p].pc = "done", ![p].status = 201,
                              ![p].created = Len(users) + 1]
    /\ RegFrame

\* db.add(new_user); await db.commit(): the unique index on users.email
\* refuses a second row with the email, and the IntegrityError leaves the
\* handler as a 500
RegisterInsert(p) ==
    /\ procs[p].pc = "insert"
    /\ IF get_user_by_email(users, procs[p].email) # {}
       THEN /\ procs' = [procs EXCEPT ![p].pc = "done", ![p].status = 500]
            /\ UNCHANGED users
       ELSE /\ users' = Append(users,
                               RegRow(procs[p].email, procs[p].password, procs[p].role))
            /\ procs' = [procs EXCEPT ![p].pc = "done", ![p].status = 201,
                                      ![p].created = Len(users) + 1]
    /\ RegFrame

NextRegister ==
    \/ \E p \in ProcIds, e \in RegEmails, w \in {"Passw0rd!A", WeakPassword}, r \in RegRoles :
            RegisterBegin(p, e, w, r)
    \/ \E p \in ProcIds : RegisterSelectEmail(p)
    \/ \E p \in ProcIds : RegisterCount(p)
    \/ \E p \in ProcIds : RegisterInsert(p)

SpecRegister == InitRegister /\ [][NextRegister]_vars


\* -------------------------------------------- step-up verification path
\* verify-2fa for an enrolled account, presented with one token of any kind
\* the gateway can sign, minted at the start or one tick earlier
InitStepUp ==
    /\ users = [u \in UserIds |->
                    [InitUser EXCEPT !.two_factor_enabled = TRUE, !.two_factor_method = "totp",
                                     !.keycloak_user_id = "kc-id",
                                     !.two_factor_configured_at = "set"]]
    /\ refresh_tokens = {}
    /\ now = 0
    /\ two_factor_secret_key \in {NoSecret, TWO_FACTOR_SECRET}
    /\ \E u \in UserIds, t \in {-1, 0} :
            held \in {create_access_token(users, u, t), create_refresh_token(u, t),
                      create_temp_2fa_token(u, t), Malformed}
    /\ nextPlain = 1
    /\ resp = NoResp
    /\ procs = <<>>
    /\ resources = <<>>

NextStepUp ==
    \/ \E otp \in OtpCodes : verify_2fa(held, otp)
    \/ get_current_user(held)
    \/ Tick

SpecStepUp == InitStepUp /\ [][NextStepUp]_vars


\* -------------------------------------------- requests after a role change
\* A gated content request as a whole: the strict resolver on the bearer
\* token, then has_permission on the account it returned, then the forward
\* (answered 201 by the content service when the transport works). The role of an account is changed
\* from outside the gateway, by an update of users.role_id.
SetRole(user_id, role) ==
    /\ users[user_id].exists
    /\ users[user_id].role # role
    /\ users' = [users EXCEPT ![user_id].role = role]
    /\ UNCHANGED <<refresh_tokens, held, nextPlain, resp>>
    /\ Frame

\* the request authorized by the role claim of the token
CreateRequestResult_claim(op, permission, token, fwd_transport) ==
    LET current_user == ResolveResult(token) IN
    IF current_user.status # 200
    THEN Reject(op, current_user.status, current_user.detail)
    ELSE IF ~has_permission([exists |-> TRUE, role |-> token.role], permission)
    THEN Reject(op, 403, "No tienes permisos")
    ELSE IF fwd_transport # "ok"
    THEN Reject(op, TransportStatus(fwd_transport), "Error del servicio de contenido")
    ELSE [Accept(op, current_user.user, NoToken, NoPlain, NoToken) EXCEPT !.status = 201]

CreateRequestResult(op, permission, token, fwd_transport) ==
    LET current_user == ResolveResult(token) IN
    IF current_user.status # 200
    THEN Reject(op, current_user.status, current_user.detail)
    ELSE IF ~has_permission(users[current_user.user], permission)
    THEN Reject(op, 403, "No tienes permisos")
    ELSE IF fwd_transport # "ok"
    THEN Reject(op, TransportStatus(fwd_transport), "Error del servicio de contenido")
    ELSE [Accept(op, current_user.user, NoToken, NoPlain, NoToken) EXCEPT !.status = 201]

CreateVideojuegoRequest(token, fwd_transport) ==
    /\ resp' = CreateRequestResult("create_videojuego", "videojuego:create", token,
                                    fwd_transport)
    /\ UNCHANGED <<users, refresh_tokens, held, nextPlain>>
    /\ Frame

CreateDesarrolladoraRequest(token, fwd_transport) ==
    /\ resp' = CreateRequestResult("create_desarrolladora", "desarrolladora:create", token,
                                    fwd_transport)
    /\ UNCHANGED <<users, refresh_tokens, held, nextPlain>>
    /\ Frame

\* the three roles of init_roles and a role that is no key of ROLE_PERMISSIONS
StoredRoles == {"desarrolladora", "editor", "superadmin", "user"}

InitRole ==
    /\ \E r \in StoredRoles : users = [u \in UserIds |-> [InitUser EXCEPT !.role = r]]
    /\ refresh_tokens = {}
    /\ now = 0
    /\ held = NoToken
    /\ nextPlain = 1
    /\ two_factor_secret_key = NoSecret
    /\ resp = NoResp
    /\ procs = <<>>
    /\ resources = <<>>

NextRole ==
    \/ \E e \in UserIds \cup {UnknownEmail}, p \in Passwords : login(e, p)
    \/ \E u \in UserIds, r \in StoredRoles : SetRole(u, r)
    \/ \E tok \in BearerValues : get_current_user(tok)
    \/ \E tok \in BearerValues, f \in Transport : CreateVideojuegoRequest(tok, f)
    \/ \E tok \in BearerValues, f \in Transport : CreateDesarrolladoraRequest(tok, f)
    \/ Tick

SpecRole == InitRole /\ [][NextRole]_vars


\* ================================================================ claims
NewRows == refresh_tokens' \ refresh_tokens

\* C1: no operation creates a refresh-token record (mints a pair) for an
\* account whose active flag is false at the time of the call.
C1_NoMintForInactive ==
    [][\A r \in NewRows : users[r.user_id].is_active]_vars

GatedStep(tok) ==
    \/ auth_me(tok)
    \/ logout(tok)
    \/ \E c \in Passwords, n \in Passwords \cup {WeakPassword} : change_password(tok, c, n)
    \/ \E ku \in KeycloakUser, ko \in KeycloakOtp : enable_2fa(tok, ku, ko)
    \/ \E otp \in OtpCodes : confirm_2fa(tok, otp)
    \/ get_2fa_status(tok)
    \/ disable_2fa(tok)

\* C2: every token-gated auth-router operation fails when the account of a
\* valid, unexpired access token is inactive, and changes no account or
\* refresh-token state.
C2_GatedOpsRejectInactive ==
    [][\A tok \in BearerValues :
          (/\ verify_token(tok, "access", now) = "ok"
           /\ ~users[tok.sub].is_active
           /\ GatedStep(tok))
          => (resp'.status # 200 /\ users' = users /\ refresh_tokens' = refresh_tokens)]_vars

\* C3: the strict resolver answers a valid access token of an inactive account
\* with the inactive-account rejection (401, "Usuario inactivo").
C3_StrictResolverInactive ==
    [][\A tok \in BearerValues :
          (/\ verify_token(tok, "access", now) = "ok"
           /\ ~users[tok.sub].is_active
           /\ get_current_user(tok))
          => (resp'.status = 401 /\ resp'.detail = "Usuario inactivo")]_vars

\* C4: an unexpired step-up token is rejected as an invalid token by
\* verify_token(access), by the strict resolver and by every token-gated auth
\* endpoint, with a separate two-factor secret or with the shared one.
C4_KindSeparation ==
    \A tok \in BearerValues :
        (tok.type = "2fa_temp" /\ tok.exp > now) =>
            /\ verify_token(tok, "access", now) \in {"Token type mismatch", "Invalid token"}
            /\ ResolveResult(tok).status = 401
            /\ MeResult(tok).status = 401
            /\ LogoutResult(tok).status = 401
            /\ \A c \in Passwords, n \in Passwords \cup {WeakPassword} :
                    ChangePasswordResult(tok, c, n).status = 401
            /\ \A ku \in KeycloakUser, ko \in KeycloakOtp :
                    Enable2FAResult(tok, ku, ko).status = 401
            /\ \A otp \in OtpCodes : Confirm2FAResult(tok, otp).status = 401
            /\ Get2FAStatusResult(tok).status = 401
            /\ Disable2FAResult(tok).status = 401

C4_Witness ==
    /\ two_factor_secret_key = NoSecret
    /\ resp.op = "resolve" /\ resp.status = 401 /\ resp.detail = "Token type mismatch"
    /\ held.type = "2fa_temp" /\ held.exp > now

\* C5 as stated: every pair minted while the account's two-factor flag is set
\* descends from a verify-2fa call.
C5_Original ==
    [][\A r \in NewRows :
          users[r.user_id].two_factor_enabled => r.origin = "verify_2fa"]_vars

\* C5 amended: while the two-factor flag is set, a pair is minted only by
\* verify-2fa presenting a valid step-up token of that account, or by refresh
\* redeeming a stored unexpired refresh token of that account (whose session may
\* be a password-only login made before two-factor was confirmed); login itself
\* never mints one.
C5_Amended ==
    [][\A r \in NewRows :
          users[r.user_id].two_factor_enabled =>
            \/ /\ resp'.op = "verify_2fa"
               /\ r.origin = "verify_2fa"
               /\ \E tok \in BearerValues :
                    /\ tok.type = "2fa_temp"
                    /\ tok.sub = r.user_id
                    /\ verify_temp_2fa_token(tok, now) = "ok"
            \/ /\ resp'.op = "refresh"
               /\ \E old \in refresh_tokens :
                    /\ old.user_id = r.user_id
                    /\ old.expires_at > now
                    /\ old.origin = r.origin]_vars

C5_Witness ==
    /\ resp.op = "verify_2fa" /\ resp.status = 200
    /\ users[resp.user].two_factor_enabled
    /\ \E r \in refresh_tokens :
            r.token_hash = sha256(resp.refresh) /\ r.origin = "verify_2fa"

\* C6: a login with the correct password for an active account whose
\* two-factor flag is set returns only a step-up token and leaves the
\* refresh-token store unchanged.
C6_Login2FAStepUpOnly ==
    [][\A e \in UserIds, p \in Passwords :
          (/\ verify_password(p, users[e].password_hash)
           /\ users[e].is_active
           /\ users[e].two_factor_enabled
           /\ login(e, p))
          => (/\ resp'.status = 200
              /\ resp'.temp = create_temp_2fa_token(e, now)
              /\ resp'.access = NoToken
              /\ resp'.refresh = NoPlain
              /\ refresh_tokens' = refresh_tokens
              /\ nextPlain' = nextPlain)]_vars

C6_Witness ==
    /\ resp.op = "login" /\ resp.status = 200
    /\ resp.temp.type = "2fa_temp"
    /\ users[resp.user].two_factor_enabled /\ users[resp.user].is_active

\* C7: verify-2fa with a malformed, expired or wrong-kind step-up token is
\* rejected: nothing is minted, no record is created, no account changes.
C7_BadStepUpRejected ==
    [][\A tok \in BearerValues, otp \in OtpCodes :
          ((tok.type # "2fa_temp" \/ tok.exp <= now) /\ verify_2fa(tok, otp))
          => (/\ resp'.status = 401
              /\ resp'.access = NoToken
              /\ resp'.refresh = NoPlain
              /\ refresh_tokens' = refresh_tokens
              /\ users' = users)]_vars

C7_Witness ==
    /\ resp.op = "verify_2fa" /\ resp.status = 401
    /\ resp.detail = "Token has expired"
    /\ held.type = "2fa_temp" /\ held.exp <= now

C9_RefreshKeepsPresented ==
    [][\A p \in RefreshValues :
          (resp'.op = "refresh" /\ resp'.status = 200 /\ refresh_token(p))
          => (/\ refresh_tokens \subseteq refresh_tokens'
              /\ Cardinality(refresh_tokens') = Cardinality(refresh_tokens) + 1
              /\ resp'.refresh \notin RefreshValues
              /\ verify_refresh_token(users', refresh_tokens', p, now') = resp'.user
              /\ verify_refresh_token(users', refresh_tokens', resp'.refresh, now') = resp'.user)]_vars

C9_Witness ==
    /\ resp.op = "refresh" /\ resp.status = 200
    /\ Cardinality({r \in refresh_tokens : r.user_id = resp.user /\ r.expires_at > now}) >= 2

\* C10: concurrent refresh calls presenting the same still-valid refresh token
\* all succeed, whatever the interleaving, each with its own new record.
C10_ConcurrentRefreshBothSucceed ==
    \A p \in ProcIds, q \in ProcIds :
        (/\ p # q
         /\ procs[p].pc = "done" /\ procs[q].pc = "done"
         /\ procs[p].token = 1 /\ procs[q].token = 1
         /\ now < ConcInitRow.expires_at)
        => (/\ procs[p].status = 200 /\ procs[q].status = 200
            /\ procs[p].new # procs[q].new
            /\ \E r \in refresh_tokens : r.token_hash = sha256(procs[p].new)
            /\ \E r \in refresh_tokens : r.token_hash = sha256(procs[q].new)
            /\ ConcInitRow \in refresh_tokens)

C10_Witness ==
    /\ \A p \in ProcIds : procs[p].pc = "done" /\ procs[p].token = 1 /\ procs[p].status = 200
    /\ Cardinality(refresh_tokens) = NumProcs + 1

\* C11: once change-password has returned success, the store holds no
\* redeemable refresh-token record of that account from a session opened
\* before the change, also when refresh calls interleave with it (every record
\* of SpecPwd descends from the login made before the change).
C11_PasswordChangeRevokesAll ==
    (resp.op = "change_password" /\ resp.status = 200) =>
        ~\E r \in refresh_tokens :
            /\ r.user_id = resp.user
            /\ r.expires_at > now
            /\ users[r.user_id].is_active

\* C12: a successful logout deletes one refresh-token record at most (the one
\* of the session logged out); the account's other records stay in the store.
C12_LogoutDeletesOneRecord ==
    [][\A tok \in BearerValues :
          (resp'.op = "logout" /\ resp'.status = 200 /\ logout(tok))
          => (/\ refresh_tokens' \subseteq refresh_tokens
              /\ Cardinality(refresh_tokens \ refresh_tokens') <= 1)]_vars

\* C13: refresh lifecycle. A token just issued to an active account redeems
\* to that account; after revoke on a plaintext, redeeming it returns none;
\* revoke returns true exactly when it deleted a record, and deletes only the
\* record matching the plaintext.
C13_RefreshLifecycle ==
    [][/\ \A u \in SvcUsers :
            (users[u].is_active /\ create_refresh_token_for_user(u))
            => verify_refresh_token(users', refresh_tokens', resp'.token, now') = u
       /\ \A t \in RefreshValues :
            revoke_refresh_token(t)
            => (/\ verify_refresh_token(users', refresh_tokens', t, now') = NoUser
                /\ resp'.ok <=> (refresh_tokens' # refresh_tokens)
                /\ refresh_tokens' \subseteq refresh_tokens
                /\ \A r \in refresh_tokens \ refresh_tokens' : r.token_hash = sha256(t))]_vars

C13_Witness ==
    /\ resp.op = "revoke" /\ resp.ok
    /\ \E r \in refresh_tokens :
            /\ r.expires_at > now
            /\ users[r.user_id].is_active
            /\ verify_refresh_token(users, refresh_tokens, r.token_hash[2], now) = r.user_id

\* C14: redeem returns an account only for a stored record with now < expiry
\* (and an active account), returns none for a record at or past its expiry
\* and for unknown plaintext, and leaves the store as it was.
C14_RedeemOnlyBeforeExpiry ==
    [][\A t \in RefreshValues :
          verify_user_refresh_token(t)
          => (/\ refresh_tokens' = refresh_tokens
              /\ users' = users
              /\ (\A r \in refresh_tokens :
                    (r.token_hash = sha256(t) /\ now >= r.expires_at) => resp'.user = NoUser)
              /\ ((~\E r \in refresh_tokens : r.token_hash = sha256(t)) => resp'.user = NoUser)
              /\ (resp'.user # NoUser =>
                    \E r \in refresh_tokens :
                        /\ r.token_hash = sha256(t)
                        /\ now < r.expires_at
                        /\ r.user_id = resp'.user))]_vars

C14_Witness ==
    /\ resp.op = "verify" /\ resp.user = NoUser
    /\ \E r \in refresh_tokens :
            /\ r.token_hash = sha256(resp.token)
            /\ r.expires_at = now
            /\ users[r.user_id].is_active

\* C15: rotate is single-use: among the calls presenting the same old
\* plaintext at most one issues a new record, and a call whose old plaintext is
\* unknown issues nothing.
C15_RotateSingleUse ==
    /\ Cardinality({p \in ProcIds : procs[p].token = 1 /\ procs[p].new # NoPlain}) <= 1
    /\ \A p \in ProcIds : procs[p].token = UnknownRefresh => procs[p].new = NoPlain

\* what the content service declares: owner email or owner id equal to the caller's
DeclaredOwner(owner, user_id) ==
    owner.owner_email = EmailOf[user_id] \/ owner.owner_id = user_id

\* C16: update and delete of a videojuego by a desarrolladora caller are
\* forwarded when the content service reports the caller as owner, and are
\* rejected with 403 and not forwarded otherwise; for editor and superadmin
\* callers they are forwarded without an ownership check.
C16_VideojuegoOwnership ==
    [][\A u \in OwnerUsers, g \in Transport, f \in FwdTransport :
          (update_videojuego(u, g, f) \/ delete_videojuego(u, g, f)) =>
            IF users[u].role # "desarrolladora"
            THEN resp'.forwarded
            ELSE IF /\ g = "ok"
                    /\ resources.videojuego.state # "deleted"
                    /\ DeclaredOwner(resources.videojuego.owner, u)
                 THEN resp'.forwarded
                 ELSE IF ~OwnerMatch(resources.videojuego.owner, u)
                      THEN resp'.status = 403 /\ ~resp'.forwarded /\ resources' = resources
                      ELSE TRUE]_vars

\* C17: an update or delete of a desarrolladora record by a desarrolladora
\* caller that does not own it is rejected and not forwarded.
C17_DesarrolladoraOwnOnly ==
    [][\A u \in OwnerUsers, f \in FwdTransport :
          (/\ users[u].role = "desarrolladora"
           /\ ~OwnerMatch(resources.desarrolladora.owner, u)
           /\ (update_desarrolladora(u, f) \/ delete_desarrolladora(u, f)))
          => (resp'.status = 403 /\ ~resp'.forwarded /\ resources' = resources)]_vars

C19_OtherTypeFalse ==
    (resp.result # "pending" /\ resp.resource_type \notin {"videojuego", "desarrolladora"})
        => resp.result = "False"

\* C20: with a delegate configured, a query that raises (timeout, connection
\* failure, error status), that returns an unexpected payload, or that reports
\* no success makes verify_resource_ownership return false; nothing is raised.
C20_DelegationFailsClosed ==
    /\ resp.result # "raise"
    /\ (/\ resp.result # "pending"
        /\ resp.proxy_service # "none"
        /\ \/ resp.reply.kind \in {"raise", "None", "JSONResponse"}
           \/ ~resp.reply.success
           \/ resp.reply.data # "dict")
       => resp.result = "False"

C20_Witness ==
    /\ resp.result = "False" /\ resp.proxy_service = "delegate"
    /\ resp.resource_type = "videojuego"
    /\ resp.reply.kind = "raise" /\ resp.reply.status = 504

\* the permission each gated content operation asks for
RequiredPermission ==
    [create_videojuego |-> "videojuego:create", update_videojuego |-> "videojuego:update",
     delete_videojuego |-> "videojuego:delete",
     create_desarrolladora |-> "desarrolladora:create",
     get_desarrolladora |-> "desarrolladora:read",
     update_desarrolladora |-> "desarrolladora:update",
     delete_desarrolladora |-> "desarrolladora:delete"]

GatedContentStep(op, u) ==
    CASE op = "create_videojuego" -> \E f \in FwdTransport : create_videojuego(u, f)
      [] op = "update_videojuego" ->
            \E g \in Transport, f \in FwdTransport : update_videojuego(u, g, f)
      [] op = "delete_videojuego" ->
            \E g \in Transport, f \in FwdTransport : delete_videojuego(u, g, f)
      [] op = "create_desarrolladora" -> \E f \in FwdTransport : create_desarrolladora(u, f)
      [] op = "get_desarrolladora" -> \E f \in FwdTransport : get_desarrolladora(u, f)
      [] op = "update_desarrolladora" -> \E f \in FwdTransport : update_desarrolladora(u, f)
      [] op = "delete_desarrolladora" -> \E f \in FwdTransport : delete_desarrolladora(u, f)

AdminPermission ==
    [list_users |-> "user:read", get_user |-> "user:read", list_roles |-> "role:read",
     get_system_stats |-> "user:read"]

AdminStep(op, u) ==
    CASE op = "list_users" -> list_users(u)
      [] op = "get_user" -> get_user(u)
      [] op = "list_roles" -> list_roles(u)
      [] op = "get_system_stats" -> get_system_stats(u)

\* C22: an administration operation called by an active account succeeds when
\* the account's role holds the required permission (user:read or role:read),
\* and is answered 403 when it does not.
C22_AdminOps ==
    [][\A op \in DOMAIN AdminPermission, u \in AdminUsers :
          (users[u].is_active /\ AdminStep(op, u))
          => IF /\ users[u].role \in DOMAIN ROLE_PERMISSIONS
                /\ AdminPermission[op] \in ROLE_PERMISSIONS[users[u].role]
             THEN resp'.status = 200
             ELSE resp'.status = 403]_vars

\* C23: for an account whose role name is not a key of the permission table,
\* has_permission and has_any_permission (any list) return false.
C23_UnknownRoleNoPermission ==
    (/\ resp.result # "pending"
     /\ resp.user.exists
     /\ resp.user.role # Null
     /\ resp.user.role \notin DOMAIN ROLE_PERMISSIONS)
    => resp.result = "False"

C23_Witness ==
    /\ resp.fn = "has_any_permission" /\ resp.result = "False"
    /\ resp.user.exists /\ resp.user.is_active /\ resp.user.role = "unknown_role"
    /\ resp.permissions = {"videojuego:read", "auth:login"}

\* C24: has_permission returns false for every inactive account and every
\* permission, whatever the role.
C24_InactiveNoPermission ==
    (/\ resp.fn = "has_permission"
     /\ resp.result # "pending"
     /\ resp.user.exists
     /\ ~resp.user.is_active)
    => resp.result = "False"

\* C25: the shape of the role-permission table: superadmin holds every
\* defined permission, desarrolladora and editor hold no user or role
\* permission, editor holds desarrolladora:read and none of
\* desarrolladora:create, update, delete; and the checks answer from it.
C25_TableShape ==
    /\ DOMAIN ROLE_PERMISSIONS = {"desarrolladora", "editor", "superadmin"}
    /\ ROLE_PERMISSIONS["superadmin"] = AllPermissions
    /\ ROLE_PERMISSIONS["desarrolladora"] \cap (UserPermissions \cup RolePermissions) = {}
    /\ ROLE_PERMISSIONS["editor"] \cap (UserPermissions \cup RolePermissions) = {}
    /\ ROLE_PERMISSIONS["editor"] \cap DesarrolladoraPermissions = {"desarrolladora:read"}
    /\ (/\ resp.fn = "has_permission" /\ resp.result # "pending"
        /\ resp.user.exists /\ resp.user.role = "editor")
       => \A p \in resp.permissions :
            p \in DesarrolladoraPermissions \ {"desarrolladora:read"} => resp.result = "False"

C25_Witness ==
    /\ resp.fn = "has_permission" /\ resp.result = "False"
    /\ resp.user.exists /\ resp.user.role = "editor"
    /\ resp.permissions = {"desarrolladora:delete"}

\* the code the enrolled authenticator shows; every other code is invalid
EnrolledOtp == "123456"

\* C26: a confirm-2fa call with an invalid OTP code is rejected and leaves
\* the account unchanged (two_factor_enabled stays false); the flag, method
\* and timestamp are set only by a confirm with the valid code.
C26_ConfirmValidatesOtp ==
    [][\A tok \in BearerValues, otp \in OtpCodes \ {EnrolledOtp} :
          confirm_2fa(tok, otp) => (resp'.status # 200 /\ users' = users)]_vars

\* C27: enable-2fa never changes the two-factor flag, method or timestamp of
\* any account; after a successful enable call the flag is still false and a
\* login with the right password still mints the pair directly; with the flag
\* already set, an authenticated enable call is rejected with 400 and changes
\* nothing.
C27_EnableLeavesFlag ==
    [][\A tok \in BearerValues, ku \in KeycloakUser, ko \in KeycloakOtp :
          enable_2fa(tok, ku, ko) =>
            /\ \A u \in UserIds :
                  /\ users'[u].two_factor_enabled = users[u].two_factor_enabled
                  /\ users'[u].two_factor_method = users[u].two_factor_method
                  /\ users'[u].two_factor_configured_at = users[u].two_factor_configured_at
            /\ \A u \in UserIds :
                  (resp'.status = 200 /\ resp'.user = u) =>
                    /\ ~users'[u].two_factor_enabled
                    /\ \A p \in Passwords :
                          (/\ verify_password(p, users'[u].password_hash)
                           /\ users'[u].is_active)
                          => (/\ LoginResult(u, p)'.status = 200
                              /\ LoginResult(u, p)'.temp = NoToken
                              /\ LoginResult(u, p)'.access.type = "access")
            /\ (/\ verify_token(tok, "access", now) = "ok"
                /\ users[tok.sub].two_factor_enabled)
               => (resp'.status = 400 /\ users' = users)]_vars

\* an enable call with a valid access token of an account whose flag is set
C27_Witness ==
    /\ resp.op = "enable_2fa" /\ resp.status = 400
    /\ \E u \in UserIds : users[u].two_factor_enabled /\ users[u].two_factor_method = "totp"

\* C28: an enable-2fa call during which the identity provider fails is
\* answered with a 500, and an account has two-factor enabled only if some
\* enable call for it returned a provisioning payload: with a provider whose
\* OTP set-up always fails, no account ever has it enabled.
C28_NoSilentEnrolment ==
    [][/\ \A tok \in BearerValues, ku \in KeycloakUser :
            (/\ verify_token(tok, "access", now) = "ok"
             /\ ~users[tok.sub].two_factor_enabled
             /\ enable_2fa(tok, ku, "empty"))
            => resp'.status = 500
       /\ \A u \in UserIds : ~users'[u].two_factor_enabled]_vars

\* C29: any two failed logins (unknown email, wrong password, inactive
\* account) are answered with the same rejection, the invalid-credentials one.
C29_FailedLoginsAlike ==
    \A e1 \in UserIds \cup {UnknownEmail}, e2 \in UserIds \cup {UnknownEmail},
       p1 \in Passwords, p2 \in Passwords :
        (LoginResult(e1, p1).status # 200 /\ LoginResult(e2, p2).status # 200)
        => /\ LoginResult(e1, p1) = LoginResult(e2, p2)
           /\ LoginResult(e1, p1).detail = "Credenciales invalidas"

\* C30: the optional resolver never raises; it returns the account the
\* strict resolver returns whenever the strict one succeeds, and no identity
\* in every other case (no credential, malformed, expired or wrong-kind
\* token, missing subject, unknown or inactive account); a public endpoint
\* called with a credential that resolves to nobody answers as it does
\* without a credential.
C30_OptionalAgreesWithStrict ==
    LET strict == ResolveResult(held)
        optional == OptionalResolveResult(held) IN
    /\ optional.status = 200
    /\ (held # NoToken /\ strict.status = 200) => optional.user = strict.user
    /\ (held = NoToken \/ strict.status # 200) =>
            /\ optional.user = NoUser
            /\ ListVideojuegosResult(held) = ListVideojuegosResult(NoToken)
    /\ resp.op = "resolve_optional" => resp = optional
    /\ resp.op = "list_videojuegos" => resp.status = 200

\* the optional resolver answered an expired access token of an active
\* account with no identity
C30_Witness ==
    /\ resp.op = "resolve_optional" /\ resp.status = 200 /\ resp.user = NoUser
    /\ held.type = "access" /\ held.key = JWT_SECRET_KEY /\ held.exp <= now
    /\ held.sub \in UserIds /\ users[held.sub].exists /\ users[held.sub].is_active

\* C31: whatever the interleaving of registrations, at most one row carries
\* a given email, and a registration that answered 201 is the one that
\* created the row of its email: every other one answered with a failure.
C31_EmailUnique ==
    /\ \A e \in RegEmails : Cardinality(get_user_by_email(users, e)) <= 1
    /\ \A p \in ProcIds :
            (procs[p].pc = "done" /\ procs[p].status = 201) =>
                /\ procs[p].created \in DOMAIN users
                /\ users[procs[p].created].email = procs[p].email
    /\ \A p \in ProcIds, q \in ProcIds :
            (/\ p # q
             /\ procs[p].pc = "done" /\ procs[p].status = 201
             /\ procs[q].pc = "done" /\ procs[q].status = 201)
            => procs[p].email # procs[q].email

\* two registrations of one email both passed the email query; one created the
\* row, the commit of the other failed
C31_Witness ==
    \E p \in ProcIds, q \in ProcIds :
        /\ procs[p].pc = "done" /\ procs[p].status = 201
        /\ procs[q].pc = "done" /\ procs[q].status = 500
        /\ procs[p].email = procs[q].email
        /\ Cardinality(get_user_by_email(users, procs[p].email)) = 1

\* C35: registration gives the role superadmin to the first account only: the
\* first row is a superadmin, and at most one row ever holds the role, also
\* when registrations run concurrently on the empty table.
C35_OneSuperadmin ==
    /\ Len(users) >= 1 => users[1].role = "superadmin"
    /\ Cardinality({i \in DOMAIN users : users[i].role = "superadmin"}) <= 1

\* C32: an access token, and a refresh-kind signed token, presented to
\* verify_temp_2fa_token and to verify-2fa is rejected as an invalid token and
\* mints nothing, with a separate two-factor secret and with the shared one.
C32_StepUpRejectsOtherKinds ==
    /\ held.type \in {"access", "refresh"} =>
            /\ verify_temp_2fa_token(held, now) # "ok"
            /\ \A otp \in OtpCodes : Verify2FAResult(held, otp).status = 401
    /\ (resp.op = "verify_2fa" /\ resp.status = 200) =>
            \E t \in 0..MaxTime : resp.access = create_access_token(users, resp.user, t)
    /\ \A r \in refresh_tokens : r.origin = "verify_2fa"

\* an unexpired access token was presented to verify-2fa while step-up tokens
\* are signed with the access-token secret
C32_Witness ==
    /\ two_factor_secret_key = NoSecret
    /\ held.type = "access" /\ held.key = SecretFor2FA /\ held.exp > now
    /\ resp.op = "verify_2fa" /\ resp.status = 401 /\ resp.detail = "Token type mismatch"
    /\ refresh_tokens = {}

\* C33: an access token with expiry exp verifies at every time before exp and
\* fails as expired at every time after exp; the strict resolver answers it
\* 401 after exp.
C33_ExpiryBoundary ==
    (held.type = "access" /\ held.key = JWT_SECRET_KEY) =>
        /\ now < held.exp => verify_token(held, "access", now) = "ok"
        /\ now > held.exp =>
                /\ verify_token(held, "access", now) = "Token has expired"
                /\ ResolveResult(held).status = 401
                /\ resp.op = "resolve" => resp.detail = "Token has expired"

\* the strict resolver was given an access token one or more ticks after its
\* expiry, for an account that exists and is active
C33_Witness ==
    /\ held.type = "access" /\ held.key = JWT_SECRET_KEY /\ now > held.exp
    /\ held.sub \in UserIds /\ users[held.sub].exists /\ users[held.sub].is_active
    /\ resp.op = "resolve" /\ resp.status = 401 /\ resp.detail = "Token has expired"

\* C36: cleanup_expired_tokens deletes exactly the records redeem no longer
\* accepts (those whose expiry is not after now) and returns their number:
\* it keeps every record redeem accepts, and leaves none that redeem rejects
\* for expiry.
C36_SweepExact ==
    [][cleanup_expired_tokens =>
          /\ refresh_tokens' = {r \in refresh_tokens : r.expires_at > now}
          /\ resp'.count = Cardinality(refresh_tokens \ refresh_tokens')]_vars

\* C37: after a successful logout or change-password, the access token it
\* was called with is still accepted by the strict resolver at every time
\* before its expiry, as long as the account exists and is active.
C37_AccessTokenSurvives ==
    (/\ resp.op \in {"logout", "change_password"} /\ resp.status = 200
     /\ held.type = "access" /\ held.sub = resp.user /\ held.exp > now
     /\ users[held.sub].exists /\ users[held.sub].is_active)
    => /\ verify_token(held, "access", now) = "ok"
       /\ ResolveResult(held) = Accept("resolve", held.sub, NoToken, NoPlain, NoToken)

\* one tick after a logout that left the account without a refresh-token
\* record, the access token is unexpired
C37_Witness ==
    /\ resp.op = "logout" /\ resp.status = 200
    /\ held.type = "access" /\ held.sub = resp.user /\ held.exp > now /\ now > 0
    /\ users[held.sub].is_active
    /\ \A r \in refresh_tokens : r.user_id # held.sub
    /\ ResolveResult(held).status = 200

\* C39: through enable-2fa, confirm-2fa and disable-2fa, an account with
\* two_factor_enabled set always has keycloak_user_id set; a successful
\* disable clears the flag, method and timestamp and leaves keycloak_user_id.
C39_EnabledHasSubject ==
    [][/\ \A u \in UserIds :
            users'[u].two_factor_enabled => users'[u].keycloak_user_id # Null
       /\ \A tok \in BearerValues :
            (disable_2fa(tok) /\ resp'.status = 200) =>
                /\ ~users'[resp'.user].two_factor_enabled
                /\ users'[resp'.user].two_factor_method = Null
                /\ users'[resp'.user].two_factor_configured_at = Null
                /\ \A u \in UserIds : users'[u].keycloak_user_id = users[u].keycloak_user_id
       /\ \A tok \in BearerValues, otp \in OtpCodes :
            (/\ verify_token(tok, "access", now) = "ok"
             /\ users[tok.sub].keycloak_user_id = Null
             /\ confirm_2fa(tok, otp))
            => (resp'.status = 404 /\ users' = users)]_vars

\* two-factor was disabled for an enrolled account
C39_Witness ==
    /\ resp.op = "disable_2fa" /\ resp.status = 200
    /\ ~users[resp.user].two_factor_enabled /\ users[resp.user].keycloak_user_id # Null

C38_StoredRoleDecides ==
    [][\A tok \in BearerValues, f \in Transport :
        (/\ verify_token(tok, "access", now) = "ok"
         /\ users[tok.sub].exists /\ users[tok.sub].is_active) =>
            /\ CreateDesarrolladoraRequest(tok, f) =>
                    /\ resp'.status = (IF f = "ok" THEN 201 ELSE TransportStatus(f))
                       \/ resp'.status = 403
                    /\ (resp'.status = 403)
                        <=> ~(/\ users[tok.sub].role \in DOMAIN ROLE_PERMISSIONS
                              /\ "desarrolladora:create"
                                    \in ROLE_PERMISSIONS[users[tok.sub].role])
            /\ CreateVideojuegoRequest(tok, f) =>
                    /\ resp'.status = (IF f = "ok" THEN 201 ELSE TransportStatus(f))
                       \/ resp'.status = 403
                    /\ (resp'.status = 403)
                        <=> ~(/\ users[tok.sub].role \in DOMAIN ROLE_PERMISSIONS
                              /\ "videojuego:create"
                                    \in ROLE_PERMISSIONS[users[tok.sub].role])]_vars

\* a token minted while the account was a desarrolladora, used after the
\* account became an editor
C38_Witness ==
    /\ held.type = "access" /\ held.role = "desarrolladora" /\ held.exp > now
    /\ users[held.sub].role = "editor" /\ users[held.sub].is_active
    /\ resp.op = "create_desarrolladora" /\ resp.status = 403
====
